---- MODULE Spec2Model ----
(***************************************************************************)
(* A model of the session interaction engine of cli-ai-chat:               *)
(*   - AIClient.generateStreamingResponse, the streaming export processor  *)
(*   - VimHandler, the modal input machine                                 *)
(*   - Database, the conversation / message store                          *)
(*   - Controller.handleMessage and the thread navigation handlers         *)
(* Text is modelled as a sequence of one-character strings, so that the    *)
(* substring searches, splits and regular expression of the code are       *)
(* computed character by character.                                        *)
(***************************************************************************)
EXTENDS Integers, Sequences, FiniteSets, TLC

\* ------------------------------------------------------------------ bounds
\* The largest number of fragments a response text is cut into.
MaxFrags == 3
\* The largest length of the command and the search buffer, sigil included.
MaxBuf == 2
\* The largest number of entries of the command history.
MaxHist == 1
\* The largest scroll position of the chat box.
MaxScroll == 1
\* The longest file name of a directive whose export is followed on its own.
MaxName == 3
\* The conversations and the messages written to the store on its own.
MaxConvs == 3
MaxMsgs == 1
\* The submits and the thread navigation keys of a session.
MaxSubmits == 2
MaxNavs == 1
\* The commands executed in a session.
MaxCmds == 2
\* The conversations, and the messages, of a store that is searched.
MaxSearchRows == 2
\* The commands submitted in command mode when the history is followed on
\* its own.
MaxSubmitted == 101

\* ------------------------------------------------------------- text helpers
\* An absent text (null, undefined): the code tests texts by truthiness, under
\* which null, undefined and "" are alike.
NoText == <<>>

\* An absent conversation id (null, undefined); the ids of the store start at 1.
NoId == 0

\* s has sub at position i (1-based).
StartsAt(s, sub, i) ==
    /\ i >= 1
    /\ i + Len(sub) - 1 <= Len(s)
    /\ \A k \in 1..Len(sub) : s[i + k - 1] = sub[k]

SetMin(S) == CHOOSE x \in S : \A y \in S : x <= y

\* String.prototype.indexOf + 1: the first position of sub in s, 0 when absent.
IndexOf(s, sub) ==
    LET hits == {i \in 1..Len(s) : StartsAt(s, sub, i)}
    IN IF hits = {} THEN 0 ELSE SetMin(hits)

\* String.prototype.includes
Includes(s, sub) == IndexOf(s, sub) # 0

\* s.split(sub)[0]: the text before the first occurrence of sub (all of s
\* when sub does not occur).
SplitFirst(s, sub) ==
    LET i == IndexOf(s, sub)
    IN IF i = 0 THEN s ELSE SubSeq(s, 1, i - 1)

\* s.split(sub)[1]: the text between the first and the second occurrence of
\* sub (to the end of s when there is no second one). The code uses it only
\* behind a truthiness test, under which undefined and "" are alike, so both
\* are <<>> here.
SplitSecond(s, sub) ==
    LET i == IndexOf(s, sub)
        rest == SubSeq(s, i + Len(sub), Len(s))
        j == IndexOf(rest, sub)
    IN IF i = 0 THEN <<>>
       ELSE IF j = 0 THEN rest ELSE SubSeq(rest, 1, j - 1)

RECURSIVE Concat(_)
\* Array.prototype.join(""): the concatenation of a sequence of texts.
Concat(ss) == IF ss = <<>> THEN <<>> ELSE Head(ss) \o Concat(Tail(ss))

\* ------------------------------------------------- the directive's markers
\* "<FileExport", the text the code looks for first (part_000:350, 355).
OpenTagStart == <<"<", "F", "i", "l", "e", "E", "x", "p", "o", "r", "t">>

\* "<FileExport name=\"", the fixed head of the regular expression (351).
OpenPrefix == OpenTagStart \o <<" ", "n", "a", "m", "e", "=", "\"">>

\* "</FileExport>" (361, 381).
CloseTag == <<"<", "/", "F", "i", "l", "e", "E", "x", "p", "o", "r", "t", ">">>

\* The opening marker as the model writes it for a file name.
OpenTag(name) == OpenPrefix \o name \o <<"\"", ">">>

\* The note the code adds to the response for a saved file (376):
\* "\n[File saved: <name>]\n".
SavedNote(name) ==
    <<"\n", "[", "F", "i", "l", "e", " ", "s", "a", "v", "e", "d", ":", " ">>
        \o name \o <<"]", "\n">>

\* The first position >= from of a double quote in s, 0 when there is none.
QuoteFrom(s, from) ==
    LET qs == {q \in from..Len(s) : s[q] = "\""}
    IN IF qs = {} THEN 0 ELSE SetMin(qs)

\* content.match(/<FileExport name="([^"]+)">/): the capture group of the
\* leftmost match, NoText when there is no match. [^"]+ cannot cross a quote,
\* so at a given start the name ends at the next quote, must not be empty
\* and must be followed by ">".
MatchOpenTag(s) ==
    LET ok(i) ==
            LET from == i + Len(OpenPrefix)
                q == QuoteFrom(s, from)
            IN /\ StartsAt(s, OpenPrefix, i)
               /\ q > from
               /\ q + 1 <= Len(s)
               /\ s[q + 1] = ">"
        hits == {i \in 1..Len(s) : ok(i)}
        i0 == SetMin(hits)
        from0 == i0 + Len(OpenPrefix)
    IN IF hits = {} THEN NoText
       ELSE SubSeq(s, from0, QuoteFrom(s, from0) - 1)

\* ------------------------------------------------------ decimal rendering
Digit(d) == <<"0", "1", "2", "3", "4", "5", "6", "7", "8", "9">>[d + 1]

RECURSIVE Digits(_)
\* Number.prototype.toString() of a natural number.
Digits(n) == IF n < 10 THEN <<Digit(n)>> ELSE Digits(n \div 10) \o <<Digit(n % 10)>>

\* ------------------------------------------------------- AIClient: exports
\* The characters of the class [a-zA-Z0-9.-] (part_000:434).
SafeChars ==
    {"a", "b", "c", "d", "e", "f", "g", "h", "i", "j", "k", "l", "m",
     "n", "o", "p", "q", "r", "s", "t", "u", "v", "w", "x", "y", "z",
     "A", "B", "C", "D", "E", "F", "G", "H", "I", "J", "K", "L", "M",
     "N", "O", "P", "Q", "R", "S", "T", "U", "V", "W", "X", "Y", "Z",
     "0", "1", "2", "3", "4", "5", "6", "7", "8", "9", ".", "-"}

\* filename.replace(/[^a-zA-Z0-9.-]/g, "_")
Sanitize(filename) ==
    [k \in 1..Len(filename) |->
        IF filename[k] \in SafeChars THEN filename[k] ELSE "_"]

RECURSIVE Normalize(_, _)
\* path.join's normalisation of a list of components: "." is dropped and
\* ".." removes the component before it.
Normalize(done, todo) ==
    IF todo = <<>> THEN done
    ELSE IF Head(todo) = <<".">> THEN Normalize(done, Tail(todo))
    ELSE IF Head(todo) = <<".", ".">> /\ done # <<>>
         THEN Normalize(SubSeq(done, 1, Len(done) - 1), Tail(todo))
    ELSE Normalize(Append(done, Head(todo)), Tail(todo))

\* path.join(path.join("exports", conversationId.toString()), sanitized):
\* the components of the resulting path.
ExportRoot == <<"e", "x", "p", "o", "r", "t", "s">>

ExportPath(filename, conversationId) ==
    Normalize(<<>>, <<ExportRoot, Digits(conversationId), Sanitize(filename)>>)

\* saveExportedFile(filename, content, conversationId). conversationId is
\* options.conversationId; when the caller gave none, conversationId.toString()
\* throws and the catch rethrows (430, 446-449). fs and path are Node's own
\* modules, whose calls are taken to succeed.
SaveExportedFile(filename, content, conversationId) ==
    IF conversationId = NoId
    THEN [threw |-> TRUE, path |-> <<>>, content |-> <<>>]
    ELSE [threw |-> FALSE,
          path |-> ExportPath(filename, conversationId),
          content |-> content]

\* ---------------------------------------- AIClient.generateStreamingResponse
\* The locals of one call when its loop starts (341-344), with what the call
\* has done so far: the files written, the fileSaved events, the chunk events
\* emitted before the final one, whether the final chunk was emitted.
NewStream(parts, conversationId) ==
    [parts |-> parts, next |-> 1, conversationId |-> conversationId,
     fullContent |-> <<>>, tokenCount |-> 0,
     currentFileExport |-> NoText, fileContent |-> <<>>,
     files |-> <<>>, fileSaved |-> <<>>, chunks |-> <<>>, closes |-> 0,
     doneChunk |-> FALSE, status |-> "running", ui |-> <<>>]

\* OnChunk as it would be if the display showed the newest increment first.
OnChunkNewestFirst(ui, chunk) ==
    <<[call |-> IF chunk.done THEN "stopLoading"
                ELSE "updateStreamingMessage",
       content |-> chunk.content, from |-> chunk.from]>> \o ui

\* The "chunk" listener of the Controller (Controller.js 92-98), which emit
\* runs before it returns: the final chunk stops the loading indicator,
\* every other chunk is handed to screen.updateStreamingMessage. ui is the
\* sequence of these calls of the screen; from is the number of the fragment
\* the chunk was produced from.
OnChunk(ui, chunk) ==
    Append(ui, [call |-> IF chunk.done THEN "stopLoading"
                         ELSE "updateStreamingMessage",
                content |-> chunk.content, from |-> chunk.from])

\* The branch of the loop body taken for a fragment (350-390).
Branch(g, content) ==
    IF Includes(content, OpenTagStart) /\ MatchOpenTag(content) # NoText
    THEN "open"
    ELSE IF g.currentFileExport # NoText /\ Includes(content, CloseTag)
    THEN "close"
    ELSE IF g.currentFileExport # NoText THEN "collect"
    ELSE "regular"

\* One iteration of the for-await loop (346-399) on the fragment content.
ProcessPart(g, content) ==
    LET b == Branch(g, content)
        saved == SaveExportedFile(g.currentFileExport, g.fileContent,
                                  g.conversationId)
        stepped == [g EXCEPT !.next = @ + 1]
    IN CASE b = "open" ->
              \* continue: no token is counted and no chunk is emitted
              [stepped EXCEPT
                  !.currentFileExport = MatchOpenTag(content),
                  !.fullContent = @ \o SplitFirst(content, OpenTagStart),
                  !.fileContent = <<>>]
         [] b = "close" /\ saved.threw ->
              \* the catch of 421-424
              [stepped EXCEPT !.status = "threw", !.closes = @ + 1]
         [] b = "close" /\ ~saved.threw ->
              [stepped EXCEPT
                  !.files = Append(@, [path |-> saved.path,
                                       content |-> saved.content]),
                  !.fileSaved = Append(@, [filename |-> g.currentFileExport,
                                           path |-> saved.path]),
                  !.closes = @ + 1,
                  !.fullContent = @ \o SavedNote(g.currentFileExport)
                                    \o SplitSecond(content, CloseTag),
                  !.currentFileExport = NoText,
                  !.fileContent = <<>>,
                  !.tokenCount = @ + 1,
                  !.chunks = Append(@, content),
                  !.ui = OnChunk(@, [content |-> content, done |-> FALSE,
                                     from |-> g.next])]
         [] b = "collect" ->
              [stepped EXCEPT
                  !.fileContent = @ \o content,
                  !.tokenCount = @ + 1,
                  !.chunks = Append(@, <<>>),
                  !.ui = OnChunk(@, [content |-> <<>>, done |-> FALSE,
                                     from |-> g.next])]
         [] OTHER ->
              [stepped EXCEPT
                  !.fullContent = @ \o content,
                  !.tokenCount = @ + 1,
                  !.chunks = Append(@, content),
                  !.ui = OnChunk(@, [content |-> content, done |-> FALSE,
                                     from |-> g.next])]

\* EndOfStream as it would be if the end of the stream wrote out a directive
\* that is still open.
EndOfStreamFlushing(g) ==
    [g EXCEPT
        !.doneChunk = TRUE,
        !.status = "returned",
        !.ui = OnChunk(@, [content |-> <<>>, done |-> TRUE, from |-> g.next]),
        !.files = IF g.currentFileExport = NoText THEN @
                  ELSE Append(@, [path |-> <<g.currentFileExport>>,
                                  content |-> g.fileContent])]

\* The stream is exhausted: the final chunk is emitted and the call returns
\* fullContent (401-420). Nothing looks at currentFileExport here.
EndOfStream(g) ==
    [g EXCEPT !.doneChunk = TRUE, !.status = "returned",
              !.ui = OnChunk(@, [content |-> <<>>, done |-> TRUE,
                                 from |-> g.next])]

\* Fragment delivery fails: the for-await throws and the catch rethrows
\* (421-424).
StreamThrows(g) == [g EXCEPT !.status = "threw"]

\* The ai "chunk" listener of the Controller: every chunk that is not the
\* final one is handed to screen.updateStreamingMessage.
Forwarded(g) == g.chunks

\* No generateStreamingResponse call.
NoStream == [NewStream(<<>>, NoId) EXCEPT !.status = "none"]

\* ---------------------------------------------------------- VimHandler
Modes == {"normal", "insert", "visual", "command", "search"}

\* An absent position (visualStart = null, visualEnd = null).
NoPos == -1

\* The fields after the constructor (VimHandler.js:14-33); scroll is the
\* scroll position of screen.chatBox, currentMode the Controller's copy of
\* the mode, kept by its modeChange listener (Controller.js:45-48). Of the
\* last key event: lastKey is its key ("" before the first one), prevMode the
\* mode it arrived in, emitted the events it emitted, shown what it put on
\* the display, threw whether its handler threw.
NewVim ==
    [mode |-> "normal", currentMode |-> "normal",
     commandBuffer |-> <<>>, searchBuffer |-> <<>>, lastSearch |-> <<>>,
     visualStart |-> NoPos, visualEnd |-> NoPos,
     commandHistory |-> <<>>, commandHistoryIndex |-> -1,
     marks |-> {}, scroll |-> 0,
     lastKey |-> "", prevMode |-> "normal", emitted |-> <<>>, shown |-> "",
     threw |-> FALSE]

\* setMode as it would be if it stored the status-line label of the mode.
SetModeIndicator(v, m) ==
    [v EXCEPT !.mode = CASE m = "normal" -> "NORMAL"
                         [] m = "insert" -> "INSERT"
                         [] m = "visual" -> "VISUAL"
                         [] m = "command" -> "COMMAND"
                         [] OTHER -> "SEARCH",
              !.currentMode = m]

\* setMode (265-271): the mode is stored and modeChange is emitted, on which
\* the Controller stores it too.
SetMode(v, m) == [v EXCEPT !.mode = m, !.currentMode = m]

\* emit(event, arg)
Emit(v, event, arg) ==
    [v EXCEPT !.emitted = Append(@, [event |-> event, arg |-> arg])]

\* A call of a method the class does not define (waitForMarkKey,
\* yankCurrentLine, paste, yankSelection, deleteSelection): a TypeError.
Throw(v) == [v EXCEPT !.threw = TRUE]

\* chatBox.scroll(n) and chatBox.scrollTo(n): the position stays in range.
Clamp(n) == IF n < 0 THEN 0 ELSE IF n > MaxScroll THEN MaxScroll ELSE n

\* Half the height of the chat box, in lines (101, 104).
HalfPage == 1

\* handleNormalMode as it would be if "p" entered insert mode and "v" did
\* not record where the selection starts.
HandleNormalModePasting(v, key) ==
    CASE key = "i" -> SetMode(v, "insert")
      [] key = "v" -> SetMode(v, "visual")
      [] key = ":" -> [SetMode(v, "command") EXCEPT !.commandBuffer = <<":">>]
      [] key = "/" -> [SetMode(v, "search") EXCEPT !.searchBuffer = <<"/">>]
      [] key = "p" -> SetMode(v, "insert")
      [] OTHER -> v

\* handleNormalMode (66-142)
HandleNormalMode(v, key) ==
    CASE key = "i" -> SetMode(v, "insert")
      [] key = "v" -> [SetMode(v, "visual") EXCEPT !.visualStart = v.scroll]
      [] key = ":" -> [SetMode(v, "command") EXCEPT !.commandBuffer = <<":">>]
      [] key = "/" -> [SetMode(v, "search") EXCEPT !.searchBuffer = <<"/">>]
      [] key \in {"j", "down"} -> [v EXCEPT !.scroll = Clamp(@ + 1)]
      [] key \in {"k", "up"} -> [v EXCEPT !.scroll = Clamp(@ - 1)]
      [] key = "g g" -> [v EXCEPT !.scroll = 0]
      [] key = "G" -> [v EXCEPT !.scroll = MaxScroll]
      [] key = "ctrl-d" -> [v EXCEPT !.scroll = Clamp(@ + HalfPage)]
      [] key = "ctrl-u" -> [v EXCEPT !.scroll = Clamp(@ - HalfPage)]
      [] key = "H" -> Emit(v, "previousThread", <<>>)
      [] key = "L" -> Emit(v, "nextThread", <<>>)
      [] key \in {"m", "'", "y y", "p"} -> Throw(v)
      [] OTHER -> v

\* handleInsertMode (144-152)
HandleInsertMode(v, key, ch) ==
    IF key = "escape" THEN SetMode(v, "normal")
    ELSE Emit(v, "input", ch)

\* The escape branch of handleVisualMode as it would be if it left the
\* selection in place.
VisualEscapeKeeping(v) == SetMode(v, "normal")

\* The escape branch of handleVisualMode (155-160).
VisualEscape(v) ==
    [SetMode(v, "normal") EXCEPT !.visualStart = NoPos, !.visualEnd = NoPos]

\* handleVisualMode (154-174): yankSelection and deleteSelection are not
\* defined, so "y" and "d" throw before their setMode("normal").
HandleVisualMode(v, key) ==
    IF key = "escape" THEN VisualEscape(v)
    ELSE LET w == [v EXCEPT !.visualEnd = v.scroll]
         IN IF key \in {"y", "d"} THEN Throw(w) ELSE w

\* s.slice(1) and s.slice(0, -1)
DropFirst(s) == SubSeq(s, 2, Len(s))
DropLast(s) == SubSeq(s, 1, Len(s) - 1)

\* executeCommand (233-259)
ExecuteCommand(v, command) ==
    LET cmd == DropFirst(command)
        name == SplitFirst(cmd, <<" ">>)
        arg == SplitSecond(cmd, <<" ">>)
    IN CASE name \in {<<"q">>, <<"q", "u", "i", "t">>} -> Emit(v, "quit", <<>>)
         [] name \in {<<"w">>, <<"w", "r", "i", "t", "e">>} ->
              Emit(v, "save", <<>>)
         [] name = <<"m", "o", "d", "e", "l">> -> Emit(v, "modelChange", arg)
         [] name = <<"t", "h", "r", "e", "a", "d">> ->
              Emit(v, "threadChange", arg)
         [] name = <<"h", "e", "l", "p">> -> [v EXCEPT !.shown = "help"]
         [] OTHER -> [v EXCEPT !.shown = "unknown command"]

\* handleCommandMode (176-209)
HandleCommandMode(v, key, ch) ==
    CASE key = "escape" -> [SetMode(v, "normal") EXCEPT !.commandBuffer = <<>>]
      [] key = "enter" ->
           LET x == ExecuteCommand(v, v.commandBuffer)
               h == Append(x.commandHistory, v.commandBuffer)
           IN [SetMode(x, "normal") EXCEPT
                  !.commandHistory = h,
                  !.commandHistoryIndex = Len(h),
                  !.commandBuffer = <<>>]
      [] key = "backspace" -> [v EXCEPT !.commandBuffer = DropLast(@)]
      [] key = "up" ->
           IF v.commandHistoryIndex > 0
           THEN [v EXCEPT
                  !.commandHistoryIndex = @ - 1,
                  !.commandBuffer = v.commandHistory[v.commandHistoryIndex]]
           ELSE v
      [] key = "down" ->
           IF v.commandHistoryIndex < Len(v.commandHistory) - 1
           THEN [v EXCEPT
                  !.commandHistoryIndex = @ + 1,
                  !.commandBuffer =
                      v.commandHistory[v.commandHistoryIndex + 2]]
           ELSE v
      [] OTHER -> IF ch # <<>> THEN [v EXCEPT !.commandBuffer = @ \o ch] ELSE v

\* executeSearch (261-263)
ExecuteSearch(v, query) == Emit(v, "search", query)

\* handleSearchMode (211-231)
HandleSearchMode(v, key, ch) ==
    CASE key = "escape" -> [SetMode(v, "normal") EXCEPT !.searchBuffer = <<>>]
      [] key = "enter" ->
           LET q == DropFirst(v.searchBuffer)
               x == ExecuteSearch([v EXCEPT !.lastSearch = q], q)
           IN [SetMode(x, "normal") EXCEPT !.searchBuffer = <<>>]
      [] key = "backspace" -> [v EXCEPT !.searchBuffer = DropLast(@)]
      [] OTHER -> IF ch # <<>> THEN [v EXCEPT !.searchBuffer = @ \o ch] ELSE v

\* The keypress listener (36-63): the handler of the current mode runs inside
\* a try; a throw is reported with screen.showError and nothing is undone.
KeyPress(v, key, ch) ==
    LET fresh == [v EXCEPT !.lastKey = key, !.prevMode = v.mode,
                           !.emitted = <<>>, !.shown = "", !.threw = FALSE]
        after == CASE v.mode = "normal" -> HandleNormalMode(fresh, key)
                   [] v.mode = "insert" -> HandleInsertMode(fresh, key, ch)
                   [] v.mode = "visual" -> HandleVisualMode(fresh, key)
                   [] v.mode = "command" -> HandleCommandMode(fresh, key, ch)
                   [] v.mode = "search" -> HandleSearchMode(fresh, key, ch)
                   [] OTHER -> fresh
    IN IF after.threw THEN [after EXCEPT !.shown = "key handling error"]
       ELSE after

\* ------------------------------------------------------------- Database
\* The two tables, with the clock that CURRENT_TIMESTAMP reads. The ids of
\* a table are 1..Len: AUTOINCREMENT, and no statement of the class deletes
\* a row. Every write happens at a time of its own, so created_at and
\* updated_at order the rows as they were written.
EmptyDb == [conversations |-> <<>>, messages |-> <<>>, clock |-> 1]

\* What db.get returns when no row matches: undefined.
NoRow == [id |-> NoId]

\* title || `Conversation ${new Date().toLocaleString()}`
DefaultTitle == <<"C">>

\* Database.getConversation
GetConversation(d, id) ==
    IF id \in 1..Len(d.conversations) THEN d.conversations[id] ELSE NoRow

\* ThreadPath as it would be if the path of the parent were left out.
ThreadPathFlat(parent, parentId) ==
    IF parentId # NoId THEN Digits(parentId) ELSE NoText

\* The thread path computed for a new conversation; parent is the row of
\* parentId and is read only when parentId is given.
ThreadPath(parent, parentId) ==
    IF parentId # NoId
    THEN IF parent.thread_path # NoText
         THEN parent.thread_path \o <<".">> \o Digits(parentId)
         ELSE Digits(parentId)
    ELSE NoText

\* Database.createConversation: parentId is null or an id; ok says whether
\* the INSERT is accepted. Reading thread_path of a parent that does not
\* exist throws before the INSERT.
CreateConversation(d, title, parentId, ok) ==
    LET parent == GetConversation(d, parentId)
        threw == (parentId # NoId /\ parent.id = NoId) \/ ~ok
        lastID == Len(d.conversations) + 1
        row == [id |-> lastID,
                title |-> IF title # NoText THEN title ELSE DefaultTitle,
                parent_id |-> parentId,
                thread_path |-> ThreadPath(parent, parentId),
                created_at |-> d.clock,
                updated_at |-> d.clock]
    IN IF threw THEN [threw |-> TRUE, id |-> NoId, db |-> d]
       ELSE [threw |-> FALSE, id |-> lastID,
             db |-> [d EXCEPT !.conversations = Append(@, row),
                              !.clock = @ + 1]]

\* Database.saveMessage: the INSERT, then the UPDATE of the conversation's
\* updated_at, which changes no row when the conversation does not exist.
SaveMessage(d, conversationId, role, content, model, tokenCount, ok) ==
    LET lastID == Len(d.messages) + 1
        row == [id |-> lastID, conversation_id |-> conversationId,
                role |-> role, content |-> content, model |-> model,
                token_count |-> tokenCount, created_at |-> d.clock]
    IN IF ~ok THEN [threw |-> TRUE, id |-> NoId, db |-> d]
       ELSE [threw |-> FALSE, id |-> lastID,
             db |-> [d EXCEPT
                       !.messages = Append(@, row),
                       !.conversations =
                           [k \in 1..Len(@) |->
                               IF @[k].id = conversationId
                               THEN [@[k] EXCEPT !.updated_at = d.clock]
                               ELSE @[k]],
                       !.clock = @ + 1]]

\* Database.getConversationHistory: the messages of the conversation, oldest
\* first, with the selected columns.
GetConversationHistory(d, id) ==
    LET rows == SelectSeq(d.messages, LAMBDA m : m.conversation_id = id)
    IN [k \in 1..Len(rows) |->
           [role |-> rows[k].role, content |-> rows[k].content,
            model |-> rows[k].model, token_count |-> rows[k].token_count,
            created_at |-> rows[k].created_at]]

\* thread_path LIKE pattern%: the thread path starts with pattern. Thread
\* paths hold digits and dots only, so the pattern has no wildcard of its
\* own.
Like(threadPath, pattern) ==
    threadPath # NoText /\ StartsAt(threadPath, pattern, 1)

\* Database.getConversationThread: nothing for a conversation that does not
\* exist; the conversation alone when it has no thread path; otherwise it
\* and the conversations whose thread path starts with its path, "." and
\* its id, oldest first.
GetConversationThread(d, id) ==
    LET conversation == GetConversation(d, id)
    IN IF conversation.id = NoId THEN <<>>
       ELSE IF conversation.thread_path # NoText
       THEN SelectSeq(d.conversations,
                LAMBDA c : \/ Like(c.thread_path,
                                   conversation.thread_path \o <<".">>
                                       \o Digits(id))
                           \/ c.id = id)
       ELSE <<conversation>>

RECURSIVE OrderByUpdatedDesc(_)
\* ORDER BY updated_at DESC
OrderByUpdatedDesc(rows) ==
    IF rows = {} THEN <<>>
    ELSE LET top == CHOOSE r \in rows :
                        \A o \in rows : o.updated_at <= r.updated_at
         IN <<top>> \o OrderByUpdatedDesc(rows \ {top})

\* The LIMIT of searchConversations.
SearchLimit == 50

\* LIMIT n
Limit(s, n) == SubSeq(s, 1, IF Len(s) < n THEN Len(s) ELSE n)

\* The letters of ASCII, for which LIKE does not tell the cases apart.
UpperCase ==
    <<"A", "B", "C", "D", "E", "F", "G", "H", "I", "J", "K", "L", "M",
      "N", "O", "P", "Q", "R", "S", "T", "U", "V", "W", "X", "Y", "Z">>
LowerCase ==
    <<"a", "b", "c", "d", "e", "f", "g", "h", "i", "j", "k", "l", "m",
      "n", "o", "p", "q", "r", "s", "t", "u", "v", "w", "x", "y", "z">>

\* The character LIKE compares in place of ch.
Fold(ch) ==
    IF \E i \in 1..26 : UpperCase[i] = ch
    THEN LowerCase[CHOOSE i \in 1..26 : UpperCase[i] = ch]
    ELSE ch

RECURSIVE LikeMatch(_, _)
\* text LIKE pattern, as SQLite evaluates it: "%" stands for any text, "_"
\* for any one character, every other character for itself in either case.
LikeMatch(text, pattern) ==
    IF pattern = <<>> THEN text = <<>>
    ELSE IF Head(pattern) = "%"
    THEN \/ LikeMatch(text, Tail(pattern))
         \/ text # <<>> /\ LikeMatch(Tail(text), pattern)
    ELSE /\ text # <<>>
         /\ Head(pattern) = "_" \/ Fold(Head(text)) = Fold(Head(pattern))
         /\ LikeMatch(Tail(text), Tail(pattern))

\* Database.searchConversations: the conversations whose title is LIKE
\* %query% or that have a message whose content is, most recently updated
\* first, 50 at most.
SearchConversations(d, query) ==
    LET pattern == <<"%">> \o query \o <<"%">>
    IN Limit(OrderByUpdatedDesc({d.conversations[k] : k \in
                 {j \in 1..Len(d.conversations) :
                      \/ LikeMatch(d.conversations[j].title, pattern)
                      \/ \E m \in 1..Len(d.messages) :
                            /\ d.messages[m].conversation_id = j
                            /\ LikeMatch(d.messages[m].content, pattern)}}),
             SearchLimit)

\* The default limit of getRecentConversations.
RecentLimit == 50

\* Database.getRecentConversations: the conversations without a parent, most
\* recently updated first.
GetRecentConversations(d, limit) ==
    Limit(OrderByUpdatedDesc({d.conversations[k] : k \in
              {j \in 1..Len(d.conversations) :
                   d.conversations[j].parent_id = NoId}}), limit)

\* An option the configuration of the AI client does not set
\* (ai.config.temperature, ai.config.maxTokens).
NoOption == -1

\* ------------------------------------------------------------ Controller
\* The fields of the Controller after its constructor, with what it has made
\* the screen show: the loading indicator and the number of errors reported.
NewController ==
    [currentConversationId |-> NoId, currentMode |-> "normal",
     isProcessingMessage |-> FALSE, loading |-> FALSE, errors |-> 0,
     screenQuit |-> FALSE, proc |-> "running",
     commandHistory |-> <<>>, temperature |-> NoOption,
     maxTokens |-> NoOption]

\* The Ctrl-C handlers of the Screen (initialize 40-45, setupKeys 145-147):
\* the Screen emits "quit". Nothing listens to it.
ScreenCtrlC(c) == [c EXCEPT !.screenQuit = TRUE]

\* The SIGINT handler of the process starts (index.mjs 13-16).
Sigint(c) == [c EXCEPT !.proc = "shutdown"]

\* The SIGINT handler runs Controller.shutdown and the process exits
\* (index.mjs 16-23; this.ai.cleanup is not defined, so through the catch).
Shutdown(c) == [c EXCEPT !.proc = "exited"]

\* handleMessage as it would be without its first line.
RejectsNever(c) == FALSE

\* The first line of handleMessage: return when a message is being processed.
Rejects(c) == c.isProcessingMessage

\* The synchronous start of loadThread; what follows it only reads the store
\* and redraws the screen.
LoadThread(c, threadId) == [c EXCEPT !.currentConversationId = threadId]

\* Controller.start: the most recently updated conversation, if there is
\* one, is loaded.
Start(c, d) ==
    LET conversations == GetRecentConversations(d, RecentLimit)
    IN IF Len(conversations) > 0
       THEN LoadThread(c, conversations[1].id)
       ELSE c

\* The rows of an answer of the store as the listeners use them: by their
\* id alone.
Ids(rows) == [k \in 1..Len(rows) |-> [id |-> rows[k].id]]

\* threads.findIndex((t) => t.id === id), counted from 1; 0 when there is
\* none (the -1 of the code).
FindIndex(threads, id) ==
    IF \E i \in 1..Len(threads) : threads[i].id = id
    THEN SetMin({i \in 1..Len(threads) : threads[i].id = id})
    ELSE 0

\* The previousThread and nextThread listeners once getRecentConversations
\* has answered with threads.
Navigate(c, dir, threads) ==
    LET currentIndex == FindIndex(threads, c.currentConversationId)
    IN IF dir = "previous"
       THEN IF currentIndex > 1
            THEN LoadThread(c, threads[currentIndex - 1].id) ELSE c
       ELSE IF currentIndex < Len(threads)
            THEN LoadThread(c, threads[currentIndex + 1].id) ELSE c

\* tokenCount = null of saveMessage.
NoCount == -1

\* this.defaultModel, the model name a response reports.
DefaultModel == <<"m">>

\* One call of handleMessage that has passed the first line: where it is
\* (pc), the result of createConversation it waits for (newId), the history
\* it fetched and the generateStreamingResponse call it waits for. For the
\* properties it also carries the conversation and the time at which its
\* user message was saved, the history of that conversation when the history
\* was fetched (expected), and the order of what it has done (log).
NewSubmit(content) ==
    [pc |-> "start", content |-> content, newId |-> NoId,
     userConv |-> NoId, userStamp |-> 0, assistantConv |-> NoId,
     history |-> <<>>, expected |-> <<>>, gen |-> NoStream, log |-> <<>>]

\* No call of handleMessage.
NoSubmit == [NewSubmit(<<>>) EXCEPT !.pc = "none"]

\* SaveUserMessage as it would be if a failure to save the user message
\* were not thrown on.
SaveUserMessageSwallowing(a, d, conversationId, ok) ==
    LET r == SaveMessage(d, conversationId, "user", a.content, NoText,
                         NoCount, ok)
    IN [db |-> r.db,
        a |-> IF r.threw
              THEN [a EXCEPT !.pc = "userSaved",
                             !.log = Append(@, "userSaveFailed")]
              ELSE [a EXCEPT !.pc = "userSaved",
                             !.userConv = conversationId,
                             !.userStamp = d.clock,
                             !.log = Append(@, "userSaved")]]

\* db.saveMessage({conversationId, role: "user", content}) (140-144), called
\* by the call a of handleMessage.
SaveUserMessage(a, d, conversationId, ok) ==
    LET r == SaveMessage(d, conversationId, "user", a.content, NoText,
                         NoCount, ok)
    IN [db |-> r.db,
        a |-> IF r.threw
              THEN [a EXCEPT !.pc = "failed",
                             !.log = Append(@, "userSaveFailed")]
              ELSE [a EXCEPT !.pc = "userSaved",
                             !.userConv = conversationId,
                             !.userStamp = d.clock,
                             !.log = Append(@, "userSaved")]]

\* db.saveMessage({conversationId, role: "assistant", ...}) (154-160) with
\* the response the stream returned.
SaveAssistantMessage(a, d, conversationId, ok) ==
    LET r == SaveMessage(d, conversationId, "assistant", a.gen.fullContent,
                         DefaultModel, a.gen.tokenCount, ok)
    IN [db |-> r.db,
        a |-> IF r.threw THEN [a EXCEPT !.pc = "failed"]
              ELSE [a EXCEPT !.pc = "assistantSaved",
                             !.assistantConv = conversationId,
                             !.log = Append(@, "assistantSaved")]]

\* Finally as it would be if the flag were cleared at the end of the try
\* block instead of in the finally: a failure leaves it set.
FinallyAfterTry(c, failed) ==
    [c EXCEPT !.isProcessingMessage = failed, !.loading = FALSE,
              !.errors = IF failed THEN @ + 1 ELSE @]

\* The catch, when failed, and the finally of handleMessage (168-174).
Finally(c, failed) ==
    [c EXCEPT !.isProcessingMessage = FALSE, !.loading = FALSE,
              !.errors = IF failed THEN @ + 1 ELSE @]

\* s without its k-th element.
Remove(s, k) == SubSeq(s, 1, k - 1) \o SubSeq(s, k + 1, Len(s))

\* ----------------------------------------------------------- CommandHandler
\* String.prototype.trim, of which the inputs need the space character alone.
RECURSIVE TrimStart(_)
TrimStart(s) ==
    IF s # <<>> /\ Head(s) = " " THEN TrimStart(Tail(s)) ELSE s

RECURSIVE TrimEnd(_)
TrimEnd(s) ==
    IF s # <<>> /\ s[Len(s)] = " "
    THEN TrimEnd(SubSeq(s, 1, Len(s) - 1)) ELSE s

Trim(s) == TrimEnd(TrimStart(s))

RECURSIVE SplitSpaces(_)
\* s.split(/\s+/): the pieces of s between its runs of spaces; a text with
\* no space, the empty one included, is its own single piece.
SplitSpaces(s) ==
    LET i == IndexOf(s, <<" ">>)
    IN IF i = 0 THEN <<s>>
       ELSE <<SubSeq(s, 1, i - 1)>>
                \o SplitSpaces(TrimStart(SubSeq(s, i + 1, Len(s))))

\* args[i - 1] of the code: the i-th argument, undefined when there is none.
Arg(args, i) == IF i <= Len(args) THEN args[i] ELSE NoText

\* CommandHandler.parseCommand
ParseCommand(cmdString) ==
    LET cleaned == IF StartsAt(cmdString, <<":">>, 1)
                   THEN Tail(cmdString) ELSE cmdString
        parts == SplitSpaces(Trim(cleaned))
    IN [command |-> parts[1],
        subcommand |-> Arg(parts, 2),
        args |-> Tail(parts)]

DigitChars == {Digit(n) : n \in 0..9}

DigitValue(ch) == CHOOSE n \in 0..9 : Digit(n) = ch

RECURSIVE LeadingDigits(_)
\* The longest prefix of s made of decimal digits.
LeadingDigits(s) ==
    IF s # <<>> /\ Head(s) \in DigitChars
    THEN <<Head(s)>> \o LeadingDigits(Tail(s)) ELSE <<>>

RECURSIVE DecimalValue(_)
DecimalValue(ds) ==
    IF ds = <<>> THEN 0
    ELSE 10 * DecimalValue(SubSeq(ds, 1, Len(ds) - 1))
             + DigitValue(ds[Len(ds)])

\* What parseInt and parseFloat return for a text that starts with no number.
NaN == [nan |-> TRUE, value |-> 0]

\* The sign a numeric text starts with, and the text behind it.
Negative(s) == s # <<>> /\ Head(s) = "-"
Unsigned(s) == IF s # <<>> /\ Head(s) \in {"-", "+"} THEN Tail(s) ELSE s

\* parseInt(s) in radix 10: leading spaces are skipped, a sign and the
\* digits that follow are read, whatever comes behind them is ignored.
ParseInt(s) ==
    LET t == TrimStart(s)
        ds == LeadingDigits(Unsigned(t))
    IN IF ds = <<>> THEN NaN
       ELSE [nan |-> FALSE,
             value |-> IF Negative(t) THEN 0 - DecimalValue(ds)
                       ELSE DecimalValue(ds)]

\* parseFloat(s), counted in tenths: a sign, digits, and a point with the
\* digits behind it are read, whatever comes behind them is ignored. The
\* value is exact for a text with at most one digit behind the point.
ParseFloat(s) ==
    LET t == TrimStart(s)
        u == Unsigned(t)
        ds == LeadingDigits(u)
        rest == SubSeq(u, Len(ds) + 1, Len(u))
        fs == IF rest # <<>> /\ Head(rest) = "."
              THEN LeadingDigits(Tail(rest)) ELSE <<>>
        tenths == 10 * DecimalValue(ds)
                      + (IF fs = <<>> THEN 0 ELSE DigitValue(fs[1]))
    IN IF ds = <<>> /\ fs = <<>> THEN NaN
       ELSE [nan |-> FALSE,
             value |-> IF Negative(t) THEN 0 - tenths ELSE tenths]

\* this.maxHistory
maxHistory == 100

\* The command history after execute has noted cmdString: newest first, a
\* text that is already there is not noted again, the oldest one goes when
\* there are more than maxHistory.
Remember(commandHistory, cmdString) ==
    IF \E i \in 1..Len(commandHistory) : commandHistory[i] = cmdString
    THEN commandHistory
    ELSE LET noted == <<cmdString>> \o commandHistory
         IN IF Len(noted) > maxHistory
            THEN SubSeq(noted, 1, Len(noted) - 1) ELSE noted

\* screen.showError
ShowError(c) == [c EXCEPT !.errors = @ + 1]

\* How a handler of a command ends: with the coordinator and the store it
\* leaves, having returned or thrown.
Returned(c, d) == [ctl |-> c, db |-> d, threw |-> FALSE]
Thrown(c, d) == [ctl |-> c, db |-> d, threw |-> TRUE]

\* Controller.loadThread, awaited: the selection is set first; the title of
\* a conversation that does not exist cannot be read, which loadThread
\* catches and reports itself.
LoadThreadAwaited(c, d, threadId) ==
    LET c1 == LoadThread(c, threadId)
    IN IF GetConversation(d, threadId) = NoRow THEN ShowError(c1) ELSE c1

\* The quit command: Controller.shutdown closes the store and calls
\* this.ai.cleanup, which is not defined; shutdown rethrows, so that
\* process.exit is not reached.
HandleQuit(c, d) == Thrown(c, d)

\* CommandHandler.handleSave: db.exportConversation is not defined.
HandleSave(c, d, filename) ==
    IF c.currentConversationId = NoId THEN Thrown(c, d) ELSE Thrown(c, d)

\* CommandHandler.handleModelChange: ai.getAvailableModels is not defined.
HandleModelChange(c, d, modelName) ==
    IF modelName = NoText THEN Thrown(c, d) ELSE Thrown(c, d)

\* CommandHandler.handleThreadCommand: screen.showThreadList and
\* db.deleteConversation are not defined; ok says whether the INSERT of
\* "new" is accepted.
HandleThreadCommand(c, d, subcommand, args, ok) ==
    CASE subcommand = <<"l", "i", "s", "t">> -> Thrown(c, d)
      [] subcommand = <<"n", "e", "w">> ->
            LET r == CreateConversation(d, NoText, NoId, ok)
            IN IF r.threw THEN Thrown(c, d)
               ELSE Returned(LoadThreadAwaited(c, r.db, r.id), r.db)
      [] subcommand = <<"d", "e", "l", "e", "t", "e">> ->
            LET threadId == ParseInt(Arg(args, 2))
            IN IF threadId.nan THEN Thrown(c, d) ELSE Thrown(c, d)
      [] OTHER ->
            LET id == ParseInt(subcommand)
            IN IF id.nan THEN Thrown(c, d)
               ELSE Returned(LoadThreadAwaited(c, d, id.value), d)

\* CommandHandler.handleSearch: screen.showSearchResults is not defined.
HandleSearch(c, d, query) ==
    IF query = NoText THEN Thrown(c, d) ELSE Thrown(c, d)

\* The themes handleSet accepts.
Themes == {<<"d", "a", "r", "k">>, <<"l", "i", "g", "h", "t">>, <<"c",
        "y", "b", "e", "r", "p", "u", "n", "k">>}

\* handleSet as it would be without its range tests: whatever number the
\* value starts with is stored.
HandleSetUnchecked(c, d, option, value) ==
    IF option = NoText \/ value = NoText THEN Thrown(c, d)
    ELSE CASE option = <<"t", "e", "m", "p", "e", "r", "a", "t", "u", "r", "e">> ->
                 LET temp == ParseFloat(value)
                 IN IF temp.nan THEN Thrown(c, d)
                    ELSE Thrown([c EXCEPT !.temperature = temp.value], d)
           [] option = <<"m", "a", "x", "_", "t", "o", "k", "e", "n", "s">> ->
                 LET tokens == ParseInt(value)
                 IN IF tokens.nan THEN Thrown(c, d)
                    ELSE Thrown([c EXCEPT !.maxTokens = tokens.value], d)
           [] OTHER -> Thrown(c, d)

\* CommandHandler.handleSet: an accepted temperature (in tenths) or token
\* limit is stored; screen.setTheme and screen.showMessage are not defined,
\* so that an accepted value ends in a thrown TypeError as well.
HandleSet(c, d, option, value) ==
    IF option = NoText \/ value = NoText THEN Thrown(c, d)
    ELSE CASE option = <<"t", "e", "m", "p", "e", "r", "a", "t", "u", "r",
            "e">> ->
                 LET temp == ParseFloat(value)
                 IN IF temp.nan \/ temp.value < 0 \/ temp.value > 20
                    THEN Thrown(c, d)
                    ELSE Thrown([c EXCEPT !.temperature = temp.value], d)
           [] option = <<"m", "a", "x", "_", "t", "o", "k", "e", "n", "s">> ->
                 LET tokens == ParseInt(value)
                 IN IF tokens.nan \/ tokens.value < 1
                    THEN Thrown(c, d)
                    ELSE Thrown([c EXCEPT !.maxTokens = tokens.value], d)
           [] option = <<"t", "h", "e", "m", "e">> ->
                 IF value \notin Themes THEN Thrown(c, d) ELSE Thrown(c, d)
           [] OTHER -> Thrown(c, d)

\* The keys of COMMANDS.
CommandNames ==
    {<<"q", "u", "i", "t">>, <<"w", "r", "i", "t", "e">>, <<"m", "o", "d",
            "e", "l">>, <<"t", "h", "r", "e", "a", "d">>, <<"s", "e", "a",
                    "r", "c", "h">>, <<"h", "e", "l", "p">>, <<"s", "e",
                            "t">>}

\* CommandHandler.showHelp
ShowHelp(c, d, command) ==
    IF command # NoText /\ command \notin CommandNames
    THEN Thrown(c, d) ELSE Returned(c, d)

\* args.join(" ")
JoinSpaces(args) ==
    Concat([k \in 1..Len(args) |->
               IF k = 1 THEN args[k] ELSE <<" ">> \o args[k]])

\* CommandHandler.execute: the text is noted in the history, then the command
\* is dispatched; whatever a handler throws is shown as an error.
Execute(c, d, cmdString, ok) ==
    LET p == ParseCommand(cmdString)
        c1 == [c EXCEPT !.commandHistory = Remember(@, cmdString)]
        o == CASE p.command \in {<<"q", "u", "i", "t">>, <<"q">>, <<"e",
                "x", "i", "t">>} ->
                      HandleQuit(c1, d)
               [] p.command \in {<<"w", "r", "i", "t",
                       "e">>, <<"w">>, <<"s", "a", "v", "e">>} ->
                      HandleSave(c1, d, Arg(p.args, 1))
               [] p.command \in {<<"m", "o", "d", "e", "l">>, <<"m">>} ->
                      HandleModelChange(c1, d, Arg(p.args, 1))
               [] p.command \in {<<"t", "h", "r", "e", "a", "d">>, <<"t">>} ->
                      HandleThreadCommand(c1, d, p.subcommand, p.args, ok)
               [] p.command \in {<<"s", "e", "a", "r", "c", "h">>, <<"s">>} ->
                      HandleSearch(c1, d, JoinSpaces(p.args))
               [] p.command \in {<<"h", "e", "l", "p">>, <<"h">>} ->
                      ShowHelp(c1, d, Arg(p.args, 1))
               [] p.command = <<"s", "e", "t">> ->
                      HandleSet(c1, d, Arg(p.args, 1), Arg(p.args, 2))
               [] OTHER -> Thrown(c1, d)
    IN [ctl |-> IF o.threw THEN ShowError(o.ctl) ELSE o.ctl, db |-> o.db]

\* ------------------------------------------------------- response texts
\* A response text is a list of segments: plain text, a complete directive
\* (opening marker, body, closing marker) or a directive left open.
Plain(text) == [kind |-> "plain", name |-> <<>>, text |-> text]
FileSeg(name, body) == [kind |-> "file", name |-> name, text |-> body]
OpenSeg(name, body) == [kind |-> "open", name |-> name, text |-> body]

Render(seg) ==
    CASE seg.kind = "plain" -> seg.text
      [] seg.kind = "file" -> OpenTag(seg.name) \o seg.text \o CloseTag
      [] OTHER -> OpenTag(seg.name) \o seg.text

RenderAll(segs) == Concat([k \in 1..Len(segs) |-> Render(segs[k])])

\* dk
TextPlain == <<Plain(<<"d", "k">>)>>
\* d<FileExport name="a">h</FileExport>k
TextMid == <<Plain(<<"d">>), FileSeg(<<"a">>, <<"h">>), Plain(<<"k">>)>>
\* <FileExport name="a.txt">hi</FileExport> done
TextExample ==
    <<FileSeg(<<"a", ".", "t", "x", "t">>, <<"h", "i">>),
      Plain(<<" ", "d", "o", "n", "e">>)>>
\* <FileExport name="x">partial
TextOpen == <<OpenSeg(<<"x">>, <<"p", "a", "r", "t", "i", "a", "l">>)>>

Texts == {TextPlain, TextMid, TextExample, TextOpen}

RECURSIVE Cuts(_, _, _)
\* The increasing sequences of at most k cut positions in lo..(len - 1).
Cuts(k, lo, len) ==
    IF k = 0 THEN {<<>>}
    ELSE {<<>>} \cup
         UNION {{<<c>> \o rest : rest \in Cuts(k - 1, c + 1, len)} :
                    c \in lo..(len - 1)}

\* The fragments of text cut after the positions of cuts.
Fragments(text, cuts) ==
    [k \in 1..(Len(cuts) + 1) |->
        SubSeq(text,
               IF k = 1 THEN 1 ELSE cuts[k - 1] + 1,
               IF k = Len(cuts) + 1 THEN Len(text) ELSE cuts[k])]

\* Every way of cutting text into 1..MaxFrags non-empty fragments.
Splittings(text) ==
    {Fragments(text, cuts) : cuts \in Cuts(MaxFrags - 1, 1, Len(text))}

\* options.conversationId as a caller may give it.
ConversationIds == {NoId, 1}

\* ------------------------------------------------- ClickHouseTransport
\* opts.batchSize: the number of entries in a batch.
batchSize == 2

\* The transport after its constructor (343-347): an empty queue and no
\* timer. Entries are named by their number, in the order of the log calls;
\* flights holds the batches whose insert has not answered, inserted the
\* batches whose insert succeeded.
NewTransport ==
    [queue |-> <<>>, timer |-> "none", logged |-> 0,
     flights |-> <<>>, inserted |-> <<>>]

\* queue.splice(0, batchSize): the batch taken.
Batch(queue) ==
    SubSeq(queue, 1, IF Len(queue) < batchSize THEN Len(queue) ELSE batchSize)

\* flush (405-416) up to its await: nothing when the queue is empty;
\* otherwise the timer is cleared and the insert of the first batch begins.
Flush(t) ==
    IF Len(t.queue) = 0 THEN t
    ELSE [t EXCEPT !.timer = "none",
                   !.queue = SubSeq(@, Len(Batch(@)) + 1, Len(@)),
                   !.flights = Append(@, Batch(t.queue))]

\* log (375-403) up to its await: the entry is queued; a full queue is
\* flushed, otherwise the timer is armed unless this.timer is set.
Log(t) ==
    LET q == [t EXCEPT !.logged = @ + 1, !.queue = Append(@, t.logged + 1)]
    IN IF Len(q.queue) >= batchSize THEN Flush(q)
       ELSE IF q.timer = "none" THEN [q EXCEPT !.timer = "armed"]
       ELSE q

\* The timeout runs flush (395). A flush that finds the queue empty leaves
\* this.timer set to the handle of the timeout that has run.
Timeout(t) == Flush([t EXCEPT !.timer = "ran"])

\* Requeue as it would be if the batch of a failed insert were dropped.
RequeueDropping(t, batch) == t

\* The catch of flush (417-422): queue.unshift(...batch).
Requeue(t, batch) == [t EXCEPT !.queue = batch \o @]

\* client.insert of the k-th batch under way answers: it has succeeded, or
\* it has failed and the batch is queued again.
Inserted(t, k, ok) ==
    LET batch == t.flights[k]
        u == [t EXCEPT !.flights = Remove(@, k)]
    IN IF ok THEN [u EXCEPT !.inserted = Append(@, batch)]
       ELSE Requeue(u, batch)

\* ------------------------------------------------------------------ state
VARIABLES
    \* the streaming export processor on its own
    segs,   \* the structure of the response text being streamed
    gen,    \* the generateStreamingResponse call
    \* the modal input machine
    vim,    \* the fields of the VimHandler, with the scroll position of the
            \* chat box, the Controller's currentMode and what the last key
            \* event emitted and reported
    \* the store
    db,     \* the conversations and messages tables
    dbRet,  \* what the last call of the store on its own returned
    \* the coordinator
    ctl,    \* the fields of the Controller and what it made the screen show
    hm,     \* the calls of handleMessage that have passed its first line
    nav,    \* the thread navigation listeners waiting for the store
    obs,    \* counters of the events so far and the last finished call of
            \* handleMessage
    \* the batching log transport
    transport   \* the fields of the ClickHouseTransport, with the inserts
                \* under way and the batches inserted

vars == <<segs, gen, vim, db, dbRet, ctl, hm, nav, obs, transport>>

\* No call of the store yet.
NoRet ==
    [op |-> "none", arg |-> NoId, query |-> NoText, threw |-> FALSE,
     id |-> NoId, rows |-> <<>>]

\* No command has been executed.
NoCmd == [kind |-> "none", text |-> NoText, before |-> NewController]

\* Nothing has happened yet.
NoObs == [submits |-> 0, dropped |-> 0, navs |-> 0, aiCalls |-> 0,
          failedEnded |-> 0, done |-> NoSubmit, cmds |-> 0, cmd |-> NoCmd]

\* No store and no coordinator.
NoSession ==
    /\ db = EmptyDb
    /\ dbRet = NoRet
    /\ ctl = NewController
    /\ hm = <<>>
    /\ nav = <<>>
    /\ obs = NoObs
    /\ transport = NewTransport

\* ------------------------------------------- the processor on its own
StreamInit ==
    /\ vim = NewVim
    /\ NoSession
    /\ segs \in Texts
    /\ \E parts \in Splittings(RenderAll(segs)), c \in ConversationIds :
          gen = NewStream(parts, c)

\* The stream delivers its next fragment.
StreamPart ==
    /\ gen.status = "running"
    /\ gen.next <= Len(gen.parts)
    /\ gen' = ProcessPart(gen, gen.parts[gen.next])
    /\ UNCHANGED <<transport, segs, vim, db, dbRet, ctl, hm, nav, obs>>

\* The stream ends.
StreamEnd ==
    /\ gen.status = "running"
    /\ gen.next > Len(gen.parts)
    /\ gen' = EndOfStream(gen)
    /\ UNCHANGED <<transport, segs, vim, db, dbRet, ctl, hm, nav, obs>>

\* The delivery of a fragment fails.
StreamFail ==
    /\ gen.status = "running"
    /\ gen.next <= Len(gen.parts)
    /\ gen' = StreamThrows(gen)
    /\ UNCHANGED <<transport, segs, vim, db, dbRet, ctl, hm, nav, obs>>

StreamNext == StreamPart \/ StreamEnd \/ StreamFail

SpecStream == StreamInit /\ [][StreamNext]_vars

\* ------------------------------------------ properties of the processor
RECURSIVE Run(_)
\* The call run to its end on the fragments it was given.
Run(g) ==
    IF g.status # "running" THEN g
    ELSE IF g.next > Len(g.parts) THEN EndOfStream(g)
    ELSE Run(ProcessPart(g, g.parts[g.next]))

\* The same response text delivered as one fragment.
Whole(g) == Run(NewStream(<<Concat(g.parts)>>, g.conversationId))

\* The file-ready events of a call as (filename, content) pairs.
FileEvents(g) ==
    {<<g.fileSaved[k].filename, g.files[k].content>> : k \in 1..Len(g.files)}

\* C1: chunk-invariance. A call that returns has the final display text and
\* the file-ready events of the call that gets the same text as one fragment.
C1_ChunkInvariance ==
    gen.status = "returned" =>
        /\ Whole(gen).status = "returned"
        /\ gen.fullContent = Whole(gen).fullContent
        /\ FileEvents(gen) = FileEvents(Whole(gen))

\* The characters of the plain text of TextPlain, TextMid and TextOpen; none
\* of them occurs in a marker, a file name or a file body of these texts.
PlainChars == {"d", "k"}

\* "<FileExp" and "ort name=\"a.txt\">hi</FileExport> done"
ExampleParts == Fragments(RenderAll(TextExample), <<8>>)

\* C2: no display increment holds markup or file content. For the texts whose
\* plain characters occur in no marker and no file body, every character
\* forwarded to the display is a plain character; and the two-fragment example
\* displays " done" only and yields the file a.txt with content "hi".
C2_NoMarkupDisplayed ==
    /\ segs # TextExample =>
          \A k \in 1..Len(Forwarded(gen)) :
              \A j \in 1..Len(Forwarded(gen)[k]) :
                  Forwarded(gen)[k][j] \in PlainChars
    /\ (gen.parts = ExampleParts /\ gen.conversationId # NoId) =>
          /\ gen.next = 2 => Concat(Forwarded(gen)) = <<>>
          /\ gen.status = "returned" =>
                /\ Concat(Forwarded(gen)) = <<" ", "d", "o", "n", "e">>
                /\ FileEvents(gen) =
                       {<<(<<"a", ".", "t", "x", "t">>), (<<"h", "i">>)>>}

RECURSIVE Reinsert(_, _, _)
\* The display text d with every file-ready event of ev put back, wrapped in
\* its markers, at the place its directive has in the segments.
Reinsert(ss, d, ev) ==
    IF ss = <<>> THEN d
    ELSE IF Head(ss).kind = "plain"
    THEN LET n == IF Len(Head(ss).text) < Len(d) THEN Len(Head(ss).text)
                  ELSE Len(d)
         IN SubSeq(d, 1, n) \o Reinsert(Tail(ss), SubSeq(d, n + 1, Len(d)), ev)
    ELSE IF ev = <<>> THEN Reinsert(Tail(ss), d, ev)
    ELSE OpenTag(Head(ev)[1]) \o Head(ev)[2] \o CloseTag
             \o Reinsert(Tail(ss), d, Tail(ev))

\* The file-ready events of a call in order.
FileEventSeq(g) ==
    [k \in 1..Len(g.files) |-> <<g.fileSaved[k].filename, g.files[k].content>>]

\* C3: round trip. For a text that ends outside a directive, the display
\* increments with the file-ready events put back reproduce the input.
C3_RoundTrip ==
    (gen.status = "returned" /\ segs[Len(segs)].kind # "open") =>
        Reinsert(segs, Concat(Forwarded(gen)), FileEventSeq(gen))
            = Concat(gen.parts)

\* C5: a stream that ends inside a directive does not return successfully.
C5_IncompleteExportFails ==
    gen.status = "returned" => gen.currentFileExport = NoText

\* C6: a directive open at the end of the stream is not written: when the
\* call returns, the files written and the fileSaved events are as many as
\* the closing markers the loop recognized.
C6_OpenDirectiveNotWritten ==
    gen.status = "returned" =>
        /\ Len(gen.files) = gen.closes
        /\ Len(gen.fileSaved) = gen.closes

\* A stream ended inside a directive that had collected content.
C6_Witness ==
    /\ gen.status = "returned"
    /\ gen.currentFileExport # NoText
    /\ gen.fileContent # <<>>

\* ------------------------------------------- the input machine on its own
\* The keys with a branch of their own in command and search mode.
EditKeys == {"escape", "enter", "backspace", "up", "down"}

\* The printable keys typed into the command and the search buffer.
BufChars == {"q"}

\* key.full of the key events; "x" is a key bound to nothing.
Keys ==
    EditKeys \cup BufChars \cup
    {"i", "v", ":", "/", "j", "k", "g g", "G", "ctrl-d", "ctrl-u",
     "H", "L", "m", "'", "y y", "p", "y", "d", "x"}

\* ch of a key event: the character of a printable key, nothing otherwise.
Ch(key) ==
    IF key \in BufChars \cup {"i", "v", ":", "/", "j", "k", "G", "H", "L",
                              "m", "'", "p", "y", "d", "x"}
    THEN <<key>> ELSE <<>>

VimInit ==
    /\ vim = NewVim
    /\ NoSession
    /\ segs = TextPlain
    /\ gen = NoStream

\* A key event in normal mode.
VimNormalKey ==
    /\ vim.mode = "normal"
    /\ \E key \in Keys : vim' = KeyPress(vim, key, Ch(key))
    /\ UNCHANGED <<transport, segs, gen, db, dbRet, ctl, hm, nav, obs>>

\* A key event in insert mode.
VimInsertKey ==
    /\ vim.mode = "insert"
    /\ \E key \in Keys : vim' = KeyPress(vim, key, Ch(key))
    /\ UNCHANGED <<transport, segs, gen, db, dbRet, ctl, hm, nav, obs>>

\* A key event in visual mode.
VimVisualKey ==
    /\ vim.mode = "visual"
    /\ \E key \in Keys : vim' = KeyPress(vim, key, Ch(key))
    /\ UNCHANGED <<transport, segs, gen, db, dbRet, ctl, hm, nav, obs>>

\* A key event in command mode; the buffer and the history stay within the
\* bounds.
VimCommandKey ==
    /\ vim.mode = "command"
    /\ \E key \in EditKeys \cup BufChars :
          /\ key \in BufChars => Len(vim.commandBuffer) < MaxBuf
          /\ key = "enter" => Len(vim.commandHistory) < MaxHist
          /\ vim' = KeyPress(vim, key, Ch(key))
    /\ UNCHANGED <<transport, segs, gen, db, dbRet, ctl, hm, nav, obs>>

\* A key event in search mode; the buffer stays within the bound.
VimSearchKey ==
    /\ vim.mode = "search"
    /\ \E key \in EditKeys \cup BufChars :
          /\ key \in BufChars => Len(vim.searchBuffer) < MaxBuf
          /\ vim' = KeyPress(vim, key, Ch(key))
    /\ UNCHANGED <<transport, segs, gen, db, dbRet, ctl, hm, nav, obs>>

VimNext ==
    VimNormalKey \/ VimInsertKey \/ VimVisualKey \/ VimCommandKey
        \/ VimSearchKey

SpecVim == VimInit /\ [][VimNext]_vars

\* ---------------------------------------- properties of the input machine
\* C7: the machine starts in normal mode and its mode is always one of the
\* five modes, also after key events whose handling throws.
C7_ModeInvariant ==
    /\ vim.mode \in Modes
    /\ vim.lastKey = "" => vim.mode = "normal"

\* A key event whose handling threw, outside normal mode.
C7_Witness ==
    /\ vim.threw
    /\ vim.mode = "visual"
    /\ vim.shown = "key handling error"

\* C8: after the escape key in insert, visual, command or search mode the
\* mode is normal, the command buffer and the search buffer are empty and
\* there is no visual selection.
C8_EscapeClears ==
    (vim.lastKey = "escape" /\ vim.prevMode # "normal") =>
        /\ vim.mode = "normal"
        /\ vim.commandBuffer = <<>>
        /\ vim.searchBuffer = <<>>
        /\ vim.visualStart = NoPos
        /\ vim.visualEnd = NoPos

\* Escape was pressed in visual mode, after commands and searches were run.
C8_Witness ==
    /\ vim.lastKey = "escape"
    /\ vim.prevMode = "visual"
    /\ vim.commandHistory # <<>>
    /\ vim.lastSearch # <<>>

\* ------------------------------------------------------ the store on its own
DbInit ==
    /\ segs = TextPlain
    /\ gen = NoStream
    /\ vim = NewVim
    /\ NoSession

\* createConversation(null, parentId) with no parent, with the id of a
\* conversation, or with an id that no conversation has; the table stays
\* within the bound. No caller gives a title.
DbCreateConversation ==
    /\ \E parentId \in 0..(Len(db.conversations) + 1), ok \in BOOLEAN :
          LET r == CreateConversation(db, NoText, parentId, ok)
          IN /\ Len(r.db.conversations) <= MaxConvs
             /\ db' = r.db
             /\ dbRet' = [op |-> "createConversation", arg |-> parentId,
                          query |-> NoText,
                          threw |-> r.threw, id |-> r.id, rows |-> <<>>]
    /\ UNCHANGED <<transport, segs, gen, vim, ctl, hm, nav, obs>>

\* saveMessage for a conversation that exists or does not; the table stays
\* within the bound.
DbSaveMessage ==
    /\ \E conversationId \in 1..(Len(db.conversations) + 1),
          ok \in BOOLEAN :
          LET r == SaveMessage(db, conversationId, "user", <<"u">>, NoText,
                               NoCount, ok)
          IN /\ Len(r.db.messages) <= MaxMsgs
             /\ db' = r.db
             /\ dbRet' = [op |-> "saveMessage", arg |-> conversationId,
                          query |-> NoText,
                          threw |-> r.threw, id |-> r.id, rows |-> <<>>]
    /\ UNCHANGED <<transport, segs, gen, vim, ctl, hm, nav, obs>>

\* getConversation(id); the answer is the row, or undefined.
DbGetConversation ==
    /\ \E id \in 1..(Len(db.conversations) + 1) :
          LET row == GetConversation(db, id)
          IN dbRet' = [op |-> "getConversation", arg |-> id,
                          query |-> NoText,
                       threw |-> FALSE, id |-> row.id,
                       rows |-> IF row.id = NoId THEN <<>> ELSE <<row>>]
    /\ UNCHANGED <<transport, segs, gen, vim, db, ctl, hm, nav, obs>>

\* getConversationHistory(id)
DbGetConversationHistory ==
    /\ \E id \in 1..(Len(db.conversations) + 1) :
          dbRet' = [op |-> "getConversationHistory", arg |-> id,
                          query |-> NoText,
                    threw |-> FALSE, id |-> NoId,
                    rows |-> GetConversationHistory(db, id)]
    /\ UNCHANGED <<transport, segs, gen, vim, db, ctl, hm, nav, obs>>

\* getConversationThread(id)
DbGetConversationThread ==
    /\ \E id \in 1..(Len(db.conversations) + 1) :
          dbRet' = [op |-> "getConversationThread", arg |-> id,
                          query |-> NoText,
                    threw |-> FALSE, id |-> NoId,
                    rows |-> GetConversationThread(db, id)]
    /\ UNCHANGED <<transport, segs, gen, vim, db, ctl, hm, nav, obs>>

DbNext ==
    \/ DbCreateConversation \/ DbSaveMessage \/ DbGetConversation
    \/ DbGetConversationHistory \/ DbGetConversationThread

SpecDb == DbInit /\ [][DbNext]_vars

UserTexts == {<<"u">>}

\* The fragments of the responses the model streams: "d", "k"; a directive
\* with an empty body; "d" and a directive that the end of the stream leaves
\* open, in one fragment.
ModelReplies ==
    {<<<<"d">>, <<"k">>>>, <<OpenTag(<<"a">>), CloseTag>>,
     <<<<"d">> \o OpenTag(<<"a">>)>>}

\* A store with two conversations; the first one has a message and is the
\* most recently updated.
SeededDb ==
    LET d1 == CreateConversation(EmptyDb, NoText, NoId, TRUE).db
        d2 == CreateConversation(d1, NoText, NoId, TRUE).db
    IN SaveMessage(d2, 1, "user", <<"u">>, NoText, NoCount, TRUE).db

\* After Controller.initialize and Controller.start, on an empty store or on
\* one with conversations.
CtlInit ==
    /\ segs = TextPlain
    /\ gen = NoStream
    /\ vim = NewVim
    /\ dbRet = NoRet
    /\ db \in {EmptyDb, SeededDb}
    /\ ctl = Start(NewController, db)
    /\ hm = <<>>
    /\ nav = <<>>
    /\ obs = NoObs
    /\ transport = NewTransport

\* The call k of handleMessage ends: catch when it failed, finally.
End(k, a, failed) ==
    /\ ctl' = Finally(ctl, failed)
    /\ hm' = Remove(hm, k)
    /\ obs' = [obs EXCEPT
                 !.failedEnded = IF failed THEN @ + 1 ELSE @,
                 !.done = [a EXCEPT !.pc = "done",
                                    !.log = IF failed
                                            THEN @ \o <<"error", "idle">>
                                            ELSE Append(@, "idle")]]

\* The screen emits "message": handleMessage(content) up to its first await.
Submit ==
    /\ obs.submits < MaxSubmits
    /\ \E content \in UserTexts, ok \in BOOLEAN :
          IF Rejects(ctl)
          THEN /\ obs' = [obs EXCEPT !.submits = @ + 1, !.dropped = @ + 1]
               /\ UNCHANGED <<db, ctl, hm>>
          ELSE /\ obs' = [obs EXCEPT !.submits = @ + 1]
               /\ ctl' = [ctl EXCEPT !.isProcessingMessage = TRUE,
                                     !.loading = TRUE]
               /\ IF ctl.currentConversationId = NoId
                  THEN LET r == CreateConversation(db, NoText, NoId, ok)
                       IN /\ db' = r.db
                          /\ hm' = Append(hm,
                                 [NewSubmit(content) EXCEPT
                                     !.pc = IF r.threw THEN "failed"
                                            ELSE "created",
                                     !.newId = r.id])
                  ELSE LET s == SaveUserMessage(NewSubmit(content), db,
                                    ctl.currentConversationId, ok)
                       IN /\ db' = s.db
                          /\ hm' = Append(hm, s.a)
    /\ UNCHANGED <<transport, segs, gen, vim, dbRet, nav>>

\* createConversation has answered (134): the new conversation becomes the
\* current one and getRecentConversations is called.
HmCreated ==
    /\ \E k \in 1..Len(hm) :
          /\ hm[k].pc = "created"
          /\ ctl' = [ctl EXCEPT !.currentConversationId = hm[k].newId]
          /\ hm' = [hm EXCEPT ![k].pc = "listed"]
    /\ UNCHANGED <<transport, segs, gen, vim, db, dbRet, nav, obs>>

\* getRecentConversations has answered (135-144): the thread list is
\* redrawn and the user message is saved to the current conversation.
HmListed ==
    /\ \E k \in 1..Len(hm), ok \in BOOLEAN :
          /\ hm[k].pc = "listed"
          /\ LET s == SaveUserMessage(hm[k], db, ctl.currentConversationId,
                                      ok)
             IN /\ db' = s.db
                /\ hm' = [hm EXCEPT ![k] = s.a]
    /\ UNCHANGED <<transport, segs, gen, vim, dbRet, ctl, nav, obs>>

\* saveMessage of the user message has answered (145-149): the history of
\* the current conversation is fetched.
HmUserSaved ==
    /\ \E k \in 1..Len(hm) :
          /\ hm[k].pc = "userSaved"
          /\ hm' = [hm EXCEPT
                      ![k].pc = "gotHistory",
                      ![k].history =
                          GetConversationHistory(db,
                              ctl.currentConversationId),
                      ![k].expected =
                          GetConversationHistory(db, hm[k].userConv)]
    /\ UNCHANGED <<transport, segs, gen, vim, db, dbRet, ctl, nav, obs>>

\* getConversationHistory has answered (148-151): generateResponse is called
\* with the history and { stream: true }, so without a conversationId.
HmGotHistory ==
    /\ \E k \in 1..Len(hm), parts \in ModelReplies :
          /\ hm[k].pc = "gotHistory"
          /\ hm' = [hm EXCEPT
                      ![k].pc = "streaming",
                      ![k].gen = NewStream(parts, NoId),
                      ![k].log = Append(@, "modelCalled")]
    /\ obs' = [obs EXCEPT !.aiCalls = @ + 1]
    /\ UNCHANGED <<transport, segs, gen, vim, db, dbRet, ctl, nav>>

\* The stream delivers its next fragment; when processing it throws,
\* generateResponse rejects and handleMessage ends in its catch.
HmStreamPart ==
    /\ \E k \in 1..Len(hm) :
          /\ hm[k].pc = "streaming"
          /\ hm[k].gen.next <= Len(hm[k].gen.parts)
          /\ LET g == ProcessPart(hm[k].gen, hm[k].gen.parts[hm[k].gen.next])
             IN IF g.status = "threw"
                THEN End(k, [hm[k] EXCEPT !.gen = g], TRUE)
                ELSE /\ hm' = [hm EXCEPT ![k].gen = g]
                     /\ UNCHANGED <<ctl, obs>>
    /\ UNCHANGED <<transport, segs, gen, vim, db, dbRet, nav>>

\* The delivery of a fragment fails: handleMessage ends in its catch.
HmStreamFail ==
    /\ \E k \in 1..Len(hm) :
          /\ hm[k].pc = "streaming"
          /\ hm[k].gen.next <= Len(hm[k].gen.parts)
          /\ End(k, [hm[k] EXCEPT !.gen = StreamThrows(@)], TRUE)
    /\ UNCHANGED <<transport, segs, gen, vim, db, dbRet, nav>>

\* The stream ends: the final chunk stops the loading indicator, the
\* response is returned and saved to the current conversation (154-160).
HmStreamEnd ==
    /\ \E k \in 1..Len(hm), ok \in BOOLEAN :
          /\ hm[k].pc = "streaming"
          /\ hm[k].gen.next > Len(hm[k].gen.parts)
          /\ LET a == [hm[k] EXCEPT !.gen = EndOfStream(@),
                                    !.log = Append(@, "streamDone")]
                 s == SaveAssistantMessage(a, db, ctl.currentConversationId,
                                           ok)
             IN /\ db' = s.db
                /\ hm' = [hm EXCEPT ![k] = s.a]
    /\ ctl' = [ctl EXCEPT !.loading = FALSE]
    /\ UNCHANGED <<transport, segs, gen, vim, dbRet, nav, obs>>

\* saveMessage of the assistant message has answered (162-174): the screen
\* is updated and the finally clears the flag.
HmAssistantSaved ==
    /\ \E k \in 1..Len(hm) :
          /\ hm[k].pc = "assistantSaved"
          /\ End(k, hm[k], FALSE)
    /\ UNCHANGED <<transport, segs, gen, vim, db, dbRet, nav>>

\* A call of the store has failed: the catch and the finally (168-174).
HmFailed ==
    /\ \E k \in 1..Len(hm) :
          /\ hm[k].pc = "failed"
          /\ End(k, hm[k], TRUE)
    /\ UNCHANGED <<transport, segs, gen, vim, db, dbRet, nav>>

\* The input machine emits "previousThread" or "nextThread": the listener
\* calls getRecentConversations (65-66, 75-76), which may fail.
ThreadKey ==
    /\ obs.navs < MaxNavs
    /\ \E dir \in {"previous", "next"}, ok \in BOOLEAN :
          nav' = Append(nav, [dir |-> dir, failed |-> ~ok,
                              threads |-> IF ok
                                          THEN Ids(GetRecentConversations(
                                                       db, RecentLimit))
                                          ELSE <<>>])
    /\ obs' = [obs EXCEPT !.navs = @ + 1]
    /\ UNCHANGED <<transport, segs, gen, vim, db, dbRet, ctl, hm>>

\* The input machine emits "search": the listener calls searchConversations
\* (86-87), which may fail.
SearchKey ==
    /\ obs.navs < MaxNavs
    /\ \E query \in UserTexts, ok \in BOOLEAN :
          nav' = Append(nav, [dir |-> "search", failed |-> ~ok,
                              threads |-> IF ok
                                          THEN Ids(SearchConversations(db,
                                                       query))
                                          ELSE <<>>])
    /\ obs' = [obs EXCEPT !.navs = @ + 1]
    /\ UNCHANGED <<transport, segs, gen, vim, db, dbRet, ctl, hm>>

\* getRecentConversations has answered the oldest waiting thread listener
\* (67-72, 77-82). When it failed, the listener ends there: its promise is
\* rejected and nothing handles it. Otherwise loadThread may be called; its
\* reads of the store may fail, which its catch reports (194-195).
ThreadLoaded ==
    /\ nav # <<>>
    /\ Head(nav).dir # "search"
    /\ nav' = Tail(nav)
    /\ IF Head(nav).failed
       THEN /\ obs' = [obs EXCEPT !.failedEnded = @ + 1]
            /\ UNCHANGED ctl
       ELSE LET c == Navigate(ctl, Head(nav).dir, Head(nav).threads)
            IN \E ok \in BOOLEAN :
                  IF ok \/ c = ctl
                  THEN ctl' = c /\ UNCHANGED obs
                  ELSE /\ ctl' = [c EXCEPT !.errors = @ + 1]
                       /\ obs' = [obs EXCEPT !.failedEnded = @ + 1]
    /\ UNCHANGED <<transport, segs, gen, vim, db, dbRet, hm>>

\* searchConversations has answered the oldest waiting search listener (88):
\* the thread list shows the results. When it failed, the listener ends
\* with its promise rejected and nothing handles it.
SearchAnswered ==
    /\ nav # <<>>
    /\ Head(nav).dir = "search"
    /\ nav' = Tail(nav)
    /\ obs' = [obs EXCEPT
                 !.failedEnded = IF Head(nav).failed THEN @ + 1 ELSE @]
    /\ UNCHANGED <<transport, segs, gen, vim, db, dbRet, ctl, hm>>

CtlNext ==
    \/ Submit \/ HmCreated \/ HmListed \/ HmUserSaved \/ HmGotHistory
    \/ HmStreamPart \/ HmStreamFail \/ HmStreamEnd \/ HmAssistantSaved
    \/ HmFailed \/ ThreadKey \/ ThreadLoaded \/ SearchKey \/ SearchAnswered

SpecCtl == CtlInit /\ [][CtlNext]_vars

\* ----------------------------------------- properties of the coordinator
\* The generateStreamingResponse calls in flight.
InFlight == Cardinality({k \in 1..Len(hm) : hm[k].pc = "streaming"})

\* C4: a submit while isProcessingMessage is true creates no conversation,
\* saves no message, makes no call of the model and leaves the flag as it
\* is; at most one call of handleMessage is past its first line and at most
\* one generation is in flight.
C4_ReentrancyGuard ==
    /\ [](Len(hm) <= 1 /\ InFlight <= 1)
    /\ [][(ctl.isProcessingMessage /\ obs'.submits # obs.submits) =>
             /\ db' = db
             /\ ctl' = ctl
             /\ hm' = hm
             /\ obs'.aiCalls = obs.aiCalls]_vars

\* A submit was dropped and the generation it met is still in flight.
C4_Witness ==
    /\ obs.dropped > 0
    /\ ctl.isProcessingMessage
    /\ InFlight = 1

\* The calls of handleMessage under way and the last one that ended.
Submits == {hm[k] : k \in 1..Len(hm)} \cup {obs.done}

\* The place of the event e in log, 0 when it is not there.
Pos(log, e) ==
    IF \E i \in 1..Len(log) : log[i] = e
    THEN SetMin({i \in 1..Len(log) : log[i] = e})
    ELSE 0

\* When e2 is in log, e1 is in it before e2.
Before(log, e1, e2) ==
    Pos(log, e2) # 0 => (Pos(log, e1) # 0 /\ Pos(log, e1) < Pos(log, e2))

\* The order of the steps of an accepted submit.
SubmitOrder(a) ==
    /\ Before(a.log, "userSaved", "modelCalled")
    /\ Before(a.log, "modelCalled", "streamDone")
    /\ Before(a.log, "streamDone", "assistantSaved")
    /\ Pos(a.log, "assistantSaved") # 0 =>
          IF Pos(a.log, "idle") # 0
          THEN Pos(a.log, "assistantSaved") < Pos(a.log, "idle")
          ELSE ctl.isProcessingMessage

\* The history handed to the model is the history of the conversation the
\* user message was saved to, and that message is its last element.
HistoryHanded(a) ==
    Pos(a.log, "modelCalled") # 0 =>
        /\ a.history = a.expected
        /\ a.history # <<>>
        /\ a.history[Len(a.history)].role = "user"
        /\ a.history[Len(a.history)].content = a.content
        /\ a.history[Len(a.history)].created_at = a.userStamp

\* C10: the user message is saved before the model is called, the history
\* handed to the model is the full history of the conversation with that
\* user message last, and the assistant message is saved after the stream
\* has completed and before the coordinator is idle again.
C10_SubmitOrder == \A a \in Submits : SubmitOrder(a) /\ HistoryHanded(a)

\* The stream of the call a failed, or ended inside a directive.
StreamError(a) ==
    \/ a.gen.status = "threw"
    \/ a.gen.status = "returned" /\ a.gen.currentFileExport # NoText

\* C11: when the delivery of a fragment fails or the stream ends inside a
\* directive, no assistant message is saved for that submit, an error is
\* reported to the display and the coordinator is idle afterwards.
C11_StreamErrorHandling ==
    /\ \A a \in Submits : StreamError(a) => a.assistantConv = NoId
    /\ (obs.done.pc = "done" /\ StreamError(obs.done)) =>
          /\ Pos(obs.done.log, "error") # 0
          /\ Pos(obs.done.log, "idle") # 0

\* C12: when saving the user message fails, the submit makes no call of the
\* model and saves no assistant message; it ends with the error reported to
\* the display and the coordinator idle.
C12_UserSaveFailureAborts ==
    \A a \in Submits :
        Pos(a.log, "userSaveFailed") # 0 =>
            /\ Pos(a.log, "modelCalled") = 0
            /\ a.gen = NoStream
            /\ a.assistantConv = NoId
            /\ a.pc \in {"failed", "done"}
            /\ a.pc = "done" => /\ Pos(a.log, "error") # 0
                                /\ Pos(a.log, "idle") # 0
                                /\ ctl.errors > 0

\* A submit whose user message could not be saved has ended and the
\* coordinator is idle.
C12_Witness ==
    /\ obs.done.pc = "done"
    /\ Pos(obs.done.log, "userSaveFailed") # 0
    /\ ~ctl.isProcessingMessage
    /\ ctl.errors > 0
    /\ hm = <<>>

\* The last call of the store was given the id of no conversation.
MissingId ==
    /\ dbRet.op # "none"
    /\ dbRet.arg # NoId
    /\ dbRet.arg \notin 1..Len(db.conversations)

\* C13: a call of the store with an id that no conversation has fails; it
\* neither answers with an empty or undefined result nor inserts a row that
\* refers to the missing id.
C13_MissingIdFails ==
    /\ MissingId => dbRet.threw
    /\ \A k \in 1..Len(db.messages) :
          db.messages[k].conversation_id \in 1..Len(db.conversations)

\* ------------------------------------------------- the session and its end
\* The input machine with the Ctrl-C key and the interrupt signal of the
\* process.
QuitInit == VimInit

\* A key event, while the process runs.
QuitKey ==
    /\ ctl.proc # "exited"
    /\ VimNext

\* Ctrl-C: the key event reaches the Screen's handlers and the input
\* machine; the buffers stay within the bound.
QuitCtrlC ==
    /\ ctl.proc # "exited"
    /\ vim.mode = "command" => Len(vim.commandBuffer) < MaxBuf
    /\ vim.mode = "search" => Len(vim.searchBuffer) < MaxBuf
    /\ ctl' = ScreenCtrlC(ctl)
    /\ vim' = KeyPress(vim, "C-c", <<"^C">>)
    /\ UNCHANGED <<transport, segs, gen, db, dbRet, hm, nav, obs>>

\* The process receives SIGINT.
QuitSigint ==
    /\ ctl.proc = "running"
    /\ ctl' = Sigint(ctl)
    /\ UNCHANGED <<transport, segs, gen, vim, db, dbRet, hm, nav, obs>>

\* The SIGINT handler runs to the exit of the process.
QuitShutdown ==
    /\ ctl.proc = "shutdown"
    /\ ctl' = Shutdown(ctl)
    /\ UNCHANGED <<transport, segs, gen, vim, db, dbRet, hm, nav, obs>>

QuitNext == QuitKey \/ QuitCtrlC \/ QuitSigint \/ QuitShutdown

\* A handler that has started runs to its end; key events and signals come
\* when they come.
SpecQuit == QuitInit /\ [][QuitNext]_vars /\ WF_vars(QuitShutdown)

\* The last key event was a quit intent: ":q" or ":quit" entered in command
\* mode, or Ctrl-C at any time.
QuitIntent ==
    \/ ctl.screenQuit
    \/ \E i \in 1..Len(vim.emitted) : vim.emitted[i].event = "quit"

\* C14: whenever a quit intent is emitted, the session eventually shuts
\* down.
C14_QuitEndsSession == [](QuitIntent => <>(ctl.proc = "exited"))

\* The mode in which the handler of a key that calls an undefined method
\* ends when that call returns: normal after "y" and "d" in visual mode
\* (167, 171), the mode it started in otherwise.
ModeOnReturn(mode, key) ==
    IF mode = "visual" /\ key \in {"y", "d"} THEN "normal" ELSE mode

\* C15: a key event whose handling raises an error reports the error to the
\* display and ends in the mode in which it ends when the handler returns
\* normally.
C15_HandlerErrorKeepsState ==
    vim.threw =>
        /\ vim.shown = "key handling error"
        /\ vim.mode = ModeOnReturn(vim.prevMode, vim.lastKey)

\* C16: the display increments of a response reach the screen in the order
\* in which their fragments arrived, and the done signal after all of them.
C16_IncrementsInOrder ==
    \A i, j \in 1..Len(gen.ui) :
        i < j =>
            /\ gen.ui[i].call = "updateStreamingMessage"
            /\ gen.ui[i].from < gen.ui[j].from

\* A response of three fragments was displayed and the done signal given.
C16_Witness ==
    /\ Len(gen.ui) = 4
    /\ gen.ui[4].call = "stopLoading"
    /\ gen.ui[1].content # gen.ui[2].content
    /\ gen.status = "returned"

\* C17: every directive closed in the response to a submit has its file
\* written at <export root>/<C>/<sanitized file name>, C being the
\* conversation the user message of the submit was saved to.
C17_ExportLayout ==
    \A a \in Submits :
        /\ Len(a.gen.fileSaved) = a.gen.closes
        /\ \A k \in 1..Len(a.gen.fileSaved) :
              a.gen.fileSaved[k].path =
                  <<ExportRoot, Digits(a.userConv),
                    Sanitize(a.gen.fileSaved[k].filename)>>

\* ------------------------------------------------ one export on its own
\* The characters of the file names: a letter, the dot and the separator.
NameChars == {"a", ".", "/"}

\* The file names of 1..MaxName characters.
ExportNames ==
    UNION {[1..n -> NameChars] : n \in 1..MaxName}

\* A response that holds one directive, in three fragments, streamed for
\* conversation 1.
ExportInit ==
    /\ vim = NewVim
    /\ NoSession
    /\ segs = TextPlain
    /\ \E name \in ExportNames :
          gen = NewStream(<<OpenTag(name), <<"h">>, CloseTag>>, 1)

SpecExport == ExportInit /\ [][StreamNext]_vars

C19_NoErrorSwallowed == obs.failedEnded <= ctl.errors

\* ------------------------------------------------------------ commands
\* The command texts executed, each with what it is: a command that is
\* accepted, one with the id of no conversation, one with an unknown name,
\* one with a malformed number, one with an option value out of range.
CmdInputs ==
    {[text |-> <<":", "h", "e", "l", "p">>, kind |-> "accepted"],
     [text |-> <<":", "t", "h", "r", "e", "a", "d", " ",
             "2">>, kind |-> "accepted"],
     [text |-> <<":", "t", "h", "r", "e", "a", "d", " ", "n", "e",
             "w">>, kind |-> "accepted"],
     [text |-> <<":", "s", "e", "t", " ", "m", "a", "x", "_", "t", "o",
             "k", "e", "n", "s", " ", "7">>, kind |-> "accepted"],
     [text |-> <<":", "s", "e", "t", " ", "t", "e", "m", "p", "e", "r",
             "a", "t", "u", "r", "e", " ", "1", ".",
                     "5">>, kind |-> "accepted"],
     [text |-> <<":", "t", "h", "r", "e", "a", "d", " ",
             "9">>, kind |-> "missing"],
     [text |-> <<":", "b", "o", "g", "u", "s">>, kind |-> "unknown"],
     [text |-> <<":", "t", "h", "r", "e", "a", "d", " ", "z",
             "z">>, kind |-> "malformed"],
     [text |-> <<":", "t", "h", "r", "e", "a", "d", " ", "1",
             "x">>, kind |-> "malformed"],
     [text |-> <<":", "s", "e", "t", " ", "m", "a", "x", "_", "t", "o",
             "k", "e", "n", "s", " ", "5", "x">>, kind |-> "malformed"],
     [text |-> <<":", "s", "e", "t", " ", "t", "e", "m", "p", "e", "r",
             "a", "t", "u", "r", "e", " ", "3">>, kind |-> "range"],
     [text |-> <<":", "s", "e", "t", " ", "m", "a", "x", "_", "t", "o",
             "k", "e", "n", "s", " ", "0">>, kind |-> "range"],
     [text |-> <<":", "s", "e", "t", " ", "t", "e", "m", "p", "e", "r", "a", "t", "u",
             "r", "e", " ", "-", "1">>, kind |-> "range"],
     [text |-> <<":", "s", "e", "t", " ", "t", "h", "e", "m", "e", " ",
             "n", "e", "o", "n">>, kind |-> "range"]}

\* After Controller.initialize and Controller.start on a store with
\* conversations.
CmdInit ==
    /\ segs = TextPlain
    /\ gen = NoStream
    /\ vim = NewVim
    /\ dbRet = NoRet
    /\ db = SeededDb
    /\ ctl = Start(NewController, db)
    /\ hm = <<>>
    /\ nav = <<>>
    /\ obs = NoObs
    /\ transport = NewTransport

\* commands.execute(cmd) runs to its end.
CmdExecute ==
    /\ obs.cmds < MaxCmds
    /\ \E input \in CmdInputs : \E ok \in BOOLEAN :
          LET o == Execute(ctl, db, input.text, ok)
          IN /\ ctl' = o.ctl
             /\ db' = o.db
             /\ obs' = [obs EXCEPT !.cmds = @ + 1,
                                   !.cmd = [kind |-> input.kind,
                                            text |-> input.text,
                                            before |-> ctl]]
    /\ UNCHANGED <<transport, segs, gen, vim, dbRet, hm, nav>>

CmdNext == CmdExecute

SpecCmd == CmdInit /\ [][CmdNext]_vars

\* What a refused command is to leave as it was: the selected conversation,
\* the options of the model and the command history. No code writes the
\* model name or the theme.
Settings(c) ==
    [currentConversationId |-> c.currentConversationId,
     temperature |-> c.temperature,
     maxTokens |-> c.maxTokens,
     commandHistory |-> c.commandHistory]

\* C20: after a command with an unknown name, a malformed number or an
\* option value out of range, one more error has been reported, the process
\* runs on, and the selected conversation, the options of the model and the
\* command history are what they were before the command.
C20_RefusedCommandChangesNothing ==
    obs.cmd.kind \in {"unknown", "malformed", "range"} =>
        /\ ctl.errors = obs.cmd.before.errors + 1
        /\ ctl.proc = "running"
        /\ Settings(ctl) = Settings(obs.cmd.before)

SearchTitles == {<<"h", "i">>, <<"a">>}
SearchContents == {<<"s", "h">>, <<"b">>}
SearchQueries == {<<"h">>, <<"a">>, <<"H">>, <<"_">>, <<"%">>}

\* createConversation(title)
SearchCreate ==
    /\ Len(db.conversations) < MaxSearchRows
    /\ \E title \in SearchTitles :
          LET r == CreateConversation(db, title, NoId, TRUE)
          IN /\ db' = r.db
             /\ dbRet' = [NoRet EXCEPT !.op = "createConversation",
                                       !.id = r.id]
    /\ UNCHANGED <<transport, segs, gen, vim, ctl, hm, nav, obs>>

\* saveMessage in a conversation of the store
SearchSave ==
    /\ Len(db.messages) < MaxSearchRows
    /\ \E conversationId \in 1..Len(db.conversations),
          content \in SearchContents :
          LET r == SaveMessage(db, conversationId, "user", content, NoText,
                               NoCount, TRUE)
          IN /\ db' = r.db
             /\ dbRet' = [NoRet EXCEPT !.op = "saveMessage",
                                       !.arg = conversationId, !.id = r.id]
    /\ UNCHANGED <<transport, segs, gen, vim, ctl, hm, nav, obs>>

\* searchConversations(query)
SearchQuery ==
    /\ \E query \in SearchQueries :
          dbRet' = [NoRet EXCEPT !.op = "searchConversations",
                                 !.query = query,
                                 !.rows = SearchConversations(db, query)]
    /\ UNCHANGED <<transport, segs, gen, vim, db, ctl, hm, nav, obs>>

SearchNext == SearchCreate \/ SearchSave \/ SearchQuery

SpecSearch == DbInit /\ [][SearchNext]_vars

\* The conversations whose title contains the query or that own a message
\* whose content contains it, most recently updated first, capped.
ConversationsContaining(d, query) ==
    Limit(OrderByUpdatedDesc({d.conversations[k] : k \in
              {j \in 1..Len(d.conversations) :
                   \/ Includes(d.conversations[j].title, query)
                   \/ \E m \in 1..Len(d.messages) :
                         /\ d.messages[m].conversation_id = j
                         /\ Includes(d.messages[m].content, query)}}),
          SearchLimit)

\* C22: the answer of a search is exactly the conversations whose title
\* contains the query or that own a message whose content contains it, each
\* once, most recently updated first, at most the result limit.
C22_SearchFindsContaining ==
    dbRet.op = "searchConversations" =>
        dbRet.rows = ConversationsContaining(db, dbRet.query)

\* ------------------------------------------------- exports and display
\* The complete directives of a response text, in order.
Directives(text) == SelectSeq(text, LAMBDA seg : seg.kind = "file")

\* Some fragment holds a directive from its opening to its closing marker.
WholeDirectiveInFragment(g) ==
    \E k \in 1..Len(g.parts) :
        LET i == IndexOf(g.parts[k], OpenPrefix)
            j == IndexOf(g.parts[k], CloseTag)
        IN i # 0 /\ j > i

\* C23: every closing marker the loop has recognized has its file-ready
\* event, which carries the declared name and exactly the text between the
\* opening and the closing marker of that directive, and a call that
\* returns after a fragment that holds a whole directive has exported it.
C23_ExportCarriesDirective ==
    /\ \A k \in 1..gen.closes :
           /\ k <= Len(gen.fileSaved)
           /\ k <= Len(Directives(segs))
           /\ FileEventSeq(gen)[k]
                 = <<Directives(segs)[k].name, Directives(segs)[k].text>>
    /\ (gen.status = "returned" /\ WholeDirectiveInFragment(gen)) =>
           Len(gen.fileSaved) >= 1

\* C24: the assistant message a call of handleMessage has saved holds the
\* display increments forwarded during its stream, concatenated in order.
C24_PersistedIsDisplayed ==
    \A k \in 1..Len(hm) :
        hm[k].pc = "assistantSaved" =>
            LET m == db.messages[Len(db.messages)]
            IN /\ m.role = "assistant"
               /\ m.content = Concat(Forwarded(hm[k].gen))

\* ------------------------------------------------ keys of the input machine
\* C25: a key event received in normal mode ends in insert mode for "i", in
\* visual mode for "v", with the scroll position as the start of the
\* selection, in command mode for ":", in search mode for "/", and in
\* normal mode for every other key.
C25_NormalModeTransitions ==
    (vim.prevMode = "normal" /\ vim.lastKey # "") =>
        /\ vim.mode = CASE vim.lastKey = "i" -> "insert"
                         [] vim.lastKey = "v" -> "visual"
                         [] vim.lastKey = ":" -> "command"
                         [] vim.lastKey = "/" -> "search"
                         [] OTHER -> "normal"
        /\ vim.lastKey = "v" => vim.visualStart = vim.scroll

\* "v" was pressed in normal mode with the chat box scrolled down.
C25_Witness ==
    /\ vim.prevMode = "normal"
    /\ vim.lastKey = "v"
    /\ vim.scroll > 0
    /\ vim.visualStart = vim.scroll

\* C26: enter in command mode emits exactly one "command" event, which
\* carries the submitted buffer without its sigil, empties the buffer and
\* ends in normal mode; enter in search mode does so with one "search"
\* event. The submitted buffer is the newest entry of the history.
C26_EnterDeliversIntent ==
    /\ (vim.prevMode = "command" /\ vim.lastKey = "enter") =>
           /\ vim.emitted =
                 <<[event |-> "command",
                    arg |-> DropFirst(
                              vim.commandHistory[Len(vim.commandHistory)])]>>
           /\ vim.commandBuffer = <<>>
           /\ vim.mode = "normal"
    /\ (vim.prevMode = "search" /\ vim.lastKey = "enter") =>
           /\ vim.emitted = <<[event |-> "search", arg |-> vim.lastSearch]>>
           /\ vim.searchBuffer = <<>>
           /\ vim.mode = "normal"

\* ------------------------------------------------- the command history
\* ":" in normal mode.
HistColon ==
    /\ vim.mode = "normal"
    /\ vim' = KeyPress(vim, ":", Ch(":"))
    /\ UNCHANGED <<transport, segs, gen, db, dbRet, ctl, hm, nav, obs>>

\* Enter in command mode: the buffer is submitted.
HistEnter ==
    /\ vim.mode = "command"
    /\ Len(vim.commandHistory) < MaxSubmitted
    /\ vim' = KeyPress(vim, "enter", Ch("enter"))
    /\ UNCHANGED <<transport, segs, gen, db, dbRet, ctl, hm, nav, obs>>

\* Up, down or escape in command mode.
HistBrowse ==
    /\ vim.mode = "command"
    /\ \E key \in {"up", "down", "escape"} :
          vim' = KeyPress(vim, key, Ch(key))
    /\ UNCHANGED <<transport, segs, gen, db, dbRet, ctl, hm, nav, obs>>

HistNext == HistColon \/ HistEnter \/ HistBrowse

SpecHist == VimInit /\ [][HistNext]_vars

\* C27: no two adjacent entries of the command history are equal: a
\* submitted buffer that equals the most recent entry is not appended.
C27_NoAdjacentDuplicates ==
    \A i \in 1..(Len(vim.commandHistory) - 1) :
        vim.commandHistory[i] # vim.commandHistory[i + 1]

\* C28: the command history that up and down step through never holds more
\* than maxHistory entries.
C28_HistoryBounded == Len(vim.commandHistory) <= maxHistory

\* C29: when the history is not empty, the first "up" after ":" puts the
\* most recently submitted command in the buffer, and up and down leave the
\* history as it is.
C29_UpShowsMostRecent ==
    [][/\ (/\ vim.prevMode = "normal" /\ vim.lastKey = ":"
            /\ vim.mode = "command" /\ vim.commandHistory # <<>>
            /\ vim'.lastKey = "up" /\ vim'.prevMode = "command") =>
               vim'.commandBuffer
                   = vim.commandHistory[Len(vim.commandHistory)]
       /\ (vim.mode = "command" /\ vim'.lastKey \in {"up", "down"}) =>
               vim'.commandHistory = vim.commandHistory]_vars

\* C30: in visual mode "y" emits yankSelection and "d" deleteSelection, and
\* the mode is normal after either; every other key but escape stores the
\* scroll position as the end of the selection and leaves the mode visual.
C30_VisualKeys ==
    (vim.prevMode = "visual" /\ vim.lastKey # "escape") =>
        /\ vim.visualEnd = vim.scroll
        /\ vim.lastKey = "y" =>
               /\ vim.mode = "normal"
               /\ \E i \in 1..Len(vim.emitted) :
                      vim.emitted[i].event = "yankSelection"
        /\ vim.lastKey = "d" =>
               /\ vim.mode = "normal"
               /\ \E i \in 1..Len(vim.emitted) :
                      vim.emitted[i].event = "deleteSelection"
        /\ vim.lastKey \notin {"y", "d"} => vim.mode = "visual"

\* ------------------------------------------------------------- marks
\* C31: the key event that follows "m" in normal mode is taken as the name
\* of a mark: the registry then maps it to the scroll position, the scroll
\* position is as it was, and the mode is normal.
C31_MarkKeyConsumed ==
    [][(vim.prevMode = "normal" /\ vim.lastKey = "m" /\ vim' # vim) =>
           /\ vim'.mode = "normal"
           /\ vim'.scroll = vim.scroll
           /\ <<vim'.lastKey, vim.scroll>> \in vim'.marks]_vars

\* ------------------------------------------------------------- aliases
\* The alias table of COMMANDS: each alias with the name it stands for.
Aliases ==
    {<<<<"q">>, <<"q", "u", "i", "t">>>>, <<<<"e", "x", "i", "t">>, <<"q",
            "u", "i", "t">>>>,
     <<<<"w">>, <<"w", "r", "i", "t", "e">>>>, <<<<"s", "a", "v",
             "e">>, <<"w", "r", "i", "t", "e">>>>,
     <<<<"m">>, <<"m", "o", "d", "e", "l">>>>, <<<<"t">>, <<"t", "h", "r",
             "e", "a", "d">>>>,
     <<<<"s">>, <<"s", "e", "a", "r", "c", "h">>>>, <<<<"h">>, <<"h", "e",
             "l", "p">>>>}

\* The command texts submitted: a name or an alias of the command surface,
\* alone or with the argument "2".
AliasTexts ==
    {<<":">> \o name \o arg :
        name \in CommandNames \cup {a[1] : a \in Aliases},
        arg \in {<<>>, <<" ", "2">>}}

\* The input machine in command mode with text typed into the buffer.
Typed(text) ==
    [NewVim EXCEPT !.mode = "command", !.currentMode = "command",
                   !.prevMode = "normal", !.lastKey = ":",
                   !.commandBuffer = text]

\* A command text has been typed in command mode, on a store with
\* conversations.
AliasInit ==
    /\ segs = TextPlain
    /\ gen = NoStream
    /\ \E text \in AliasTexts : vim = Typed(text)
    /\ dbRet = NoRet
    /\ db = SeededDb
    /\ ctl = [Start(NewController, db) EXCEPT !.currentMode = "command"]
    /\ hm = <<>>
    /\ nav = <<>>
    /\ obs = NoObs
    /\ transport = NewTransport

\* Enter, escape or backspace in command mode.
AliasKey ==
    /\ vim.mode = "command"
    /\ \E key \in {"enter", "escape", "backspace"} :
          vim' = KeyPress(vim, key, Ch(key))
    /\ UNCHANGED <<transport, segs, gen, db, dbRet, ctl, hm, nav, obs>>

\* commands.execute with the text of the command buffer.
AliasExecute ==
    /\ vim.mode = "command"
    /\ obs.cmds = 0
    /\ LET o == Execute(ctl, db, vim.commandBuffer, TRUE)
       IN /\ ctl' = o.ctl
          /\ db' = o.db
          /\ obs' = [obs EXCEPT !.cmds = @ + 1,
                                !.cmd = [kind |-> "accepted",
                                         text |-> vim.commandBuffer,
                                         before |-> ctl]]
    /\ UNCHANGED <<transport, segs, gen, vim, dbRet, hm, nav>>

AliasNext == AliasKey \/ AliasExecute

SpecAlias == AliasInit /\ [][AliasNext]_vars

\* The command text with its name replaced by the name it is an alias of.
Canonical(text) ==
    LET name == ParseCommand(text).command
        rest == SubSeq(text, Len(name) + 2, Len(text))
    IN IF \E a \in Aliases : a[1] = name
       THEN <<":">> \o (CHOOSE a \in Aliases : a[1] = name)[2] \o rest
       ELSE text

\* What a submitted command text has done in the input machine: the events
\* emitted and what was shown.
VimEffect(v) == [emitted |-> v.emitted, shown |-> v.shown]

\* What an executed command text has done in the coordinator, the history of
\* command texts aside.
CmdEffect(c) == [c EXCEPT !.commandHistory = <<>>]

\* C32: a command text submitted with enter, and a command text executed by
\* the command handler, has the effect of the same text with its alias
\* replaced by the name of the command.
C32_AliasesResolve ==
    /\ (vim.prevMode = "command" /\ vim.lastKey = "enter") =>
           LET text == vim.commandHistory[Len(vim.commandHistory)]
           IN VimEffect(vim)
                = VimEffect(KeyPress(Typed(Canonical(text)), "enter", <<>>))
    /\ obs.cmd.kind # "none" =>
           CmdEffect(ctl)
             = CmdEffect(Execute(obs.cmd.before, db,
                                 Canonical(obs.cmd.text), TRUE).ctl)

\* ------------------------------------------------- thread navigation
\* C33: when getRecentConversations has answered a thread listener with
\* threads, previousThread selects the entry just before the selected
\* conversation and nextThread the entry just after it; at the first (resp.
\* last) entry, and when the selected conversation is not among threads or
\* none is selected, the selection is as it was.
C33_NavigationInsideList ==
    [][(nav # <<>> /\ nav' = Tail(nav) /\ Head(nav).dir # "search"
          /\ ~Head(nav).failed) =>
           LET threads == Head(nav).threads
               i == FindIndex(threads, ctl.currentConversationId)
               target == IF Head(nav).dir = "previous"
                         THEN IF i > 1 THEN threads[i - 1].id
                              ELSE ctl.currentConversationId
                         ELSE IF i >= 1 /\ i < Len(threads)
                              THEN threads[i + 1].id
                              ELSE ctl.currentConversationId
           IN ctl'.currentConversationId = target]_vars

\* ------------------------------------------------------ thread fetch
\* The thread path of the children of conversation c: its own path, "." and
\* its id, or its id alone when it is a root.
PathPlusId(c) ==
    IF c.thread_path = NoText THEN Digits(c.id)
    ELSE c.thread_path \o <<".">> \o Digits(c.id)

\* x is below c: the thread path of x is PathPlusId(c) or goes on after it
\* with a further component.
DescendantOf(x, c) ==
    \/ x.thread_path = PathPlusId(c)
    \/ StartsAt(x.thread_path, PathPlusId(c) \o <<".">>, 1)

\* C34: getConversationThread(c) of a conversation c that exists answers c
\* and the conversations below it and no other, oldest first.
C34_ThreadIsBranch ==
    (dbRet.op = "getConversationThread"
       /\ dbRet.arg \in 1..Len(db.conversations)) =>
        LET c == db.conversations[dbRet.arg]
            rows == dbRet.rows
        IN /\ {rows[k] : k \in 1..Len(rows)}
                = {x \in {db.conversations[k] :
                             k \in 1..Len(db.conversations)} :
                      x = c \/ DescendantOf(x, c)}
           /\ \A i, j \in 1..Len(rows) :
                 i < j => rows[i].created_at < rows[j].created_at

\* --------------------------------------------- the conversation of a reply
\* C35: the assistant message of a call of handleMessage is saved to the
\* conversation its user message was saved to.
C35_ReplySameConversation ==
    \A a \in Submits :
        a.assistantConv # NoId => a.assistantConv = a.userConv

\* ------------------------------------------------- the selection exists
\* C36: the selected conversation is none or the id of a conversation of
\* the store.
C36_SelectionExists ==
    \/ ctl.currentConversationId = NoId
    \/ ctl.currentConversationId \in 1..Len(db.conversations)

\* ------------------------------------------------------------ the sigil
\* C37: in command mode the command buffer begins with ":", and in search
\* mode the search buffer begins with "/".
C37_BufferKeepsSigil ==
    /\ vim.mode = "command" =>
           (vim.commandBuffer # <<>> /\ Head(vim.commandBuffer) = ":")
    /\ vim.mode = "search" =>
           (vim.searchBuffer # <<>> /\ Head(vim.searchBuffer) = "/")

\* ------------------------------------------------- the return to idle
\* A call of handleMessage resumes after an await: the store or the model
\* has answered or failed.
HmResume ==
    \/ HmCreated \/ HmListed \/ HmUserSaved \/ HmGotHistory
    \/ HmStreamPart \/ HmStreamFail \/ HmStreamEnd \/ HmAssistantSaved
    \/ HmFailed

\* The coordinator when every call of the store and every call of the model
\* terminates: a call of handleMessage that waits is resumed.
SpecCtlFair == CtlInit /\ [][CtlNext]_vars /\ WF_vars(HmResume)

\* C38: whenever isProcessingMessage is true it is false again later, on
\* the success path and on every failure path of handleMessage.
C38_ReturnsToIdle == ctl.isProcessingMessage ~> ~ctl.isProcessingMessage

\* Two submits were accepted, one after the other has ended; a call of
\* handleMessage has ended in its catch, and the coordinator is idle.
C38_Witness ==
    /\ obs.submits >= 2
    /\ obs.dropped = 0
    /\ obs.navs = 0
    /\ obs.failedEnded >= 1
    /\ obs.done.pc = "done"
    /\ hm = <<>>
    /\ ~ctl.isProcessingMessage

\* ------------------------------------------------- the log transport
\* The number of log calls.
MaxLogged == 4

TransportInit ==
    /\ segs = TextPlain
    /\ gen = NoStream
    /\ vim = NewVim
    /\ NoSession

\* winston calls log(info, callback).
TransportLog ==
    /\ transport.logged < MaxLogged
    /\ transport' = Log(transport)
    /\ UNCHANGED <<segs, gen, vim, db, dbRet, ctl, hm, nav, obs>>

\* The timeout armed by log runs.
TransportTimeout ==
    /\ transport.timer = "armed"
    /\ transport' = Timeout(transport)
    /\ UNCHANGED <<segs, gen, vim, db, dbRet, ctl, hm, nav, obs>>

\* An insert under way succeeds.
TransportInserted ==
    /\ \E k \in 1..Len(transport.flights) :
          transport' = Inserted(transport, k, TRUE)
    /\ UNCHANGED <<segs, gen, vim, db, dbRet, ctl, hm, nav, obs>>

\* An insert under way fails.
TransportInsertFailed ==
    /\ \E k \in 1..Len(transport.flights) :
          transport' = Inserted(transport, k, FALSE)
    /\ UNCHANGED <<segs, gen, vim, db, dbRet, ctl, hm, nav, obs>>

TransportNext ==
    \/ TransportLog \/ TransportTimeout \/ TransportInserted
    \/ TransportInsertFailed

SpecTransport == TransportInit /\ [][TransportNext]_vars

\* How many times the entry e is in the sequence s.
Count(s, e) == Cardinality({i \in 1..Len(s) : s[i] = e})

\* How many times the entry e is in the batches of the sequence bs.
CountIn(bs, e) ==
    Cardinality({p \in (1..Len(bs)) \X (1..batchSize) :
                    p[2] <= Len(bs[p[1]]) /\ bs[p[1]][p[2]] = e})

\* C39: every entry logged is either once in the queue, or in one batch
\* whose insert is under way or has succeeded, and nowhere else; an insert
\* that fails puts its whole batch at the head of the queue.
C39_NoLossNoDuplicate ==
    /\ [](\A e \in 1..transport.logged :
            Count(transport.queue, e) + CountIn(transport.flights, e)
                + CountIn(transport.inserted, e) = 1)
    /\ [][\A k \in 1..Len(transport.flights) :
             (/\ transport'.flights = Remove(transport.flights, k)
              /\ transport'.inserted = transport.inserted) =>
                 transport'.queue
                     = transport.flights[k] \o transport.queue]_vars

\* An insert has failed while entries logged later were waiting: its batch
\* is at the head of the queue, before them, while another batch has been
\* inserted.
C39_Witness ==
    /\ Len(transport.queue) > batchSize
    /\ transport.queue[1] < transport.queue[Len(transport.queue)]
    /\ transport.flights = <<>>
    /\ transport.logged > Len(transport.queue)

\* The transport when every timeout armed runs and every insert answers.
SpecTransportFair ==
    /\ TransportInit
    /\ [][TransportNext]_vars
    /\ WF_vars(TransportTimeout)
    /\ WF_vars(TransportInserted \/ TransportInsertFailed)

\* C40: an entry in the queue is later in a batch handed to an insert,
\* with no further call of log.
C40_QueuedIsFlushed ==
    \A e \in 1..MaxLogged :
        (Count(transport.queue, e) > 0)
            ~> (CountIn(transport.flights, e) > 0)

====
